---- MODULE Spec2Model ----
(***************************************************************************)
(* Model of the sales-analysis pipeline: the Redis result cache            *)
(* (utils/cache.py), the analyze endpoint that memoizes sub-analyses       *)
(* (api/main.py) and the DataCleaner (data_processor/cleaner.py).          *)
(***************************************************************************)
EXTENDS Integers, Sequences, FiniteSets, TLC

\* ------------------------------------------------------------------------
\* Bounds of the model
\* ------------------------------------------------------------------------
MaxTicks == 2

\* ------------------------------------------------------------------------
\* Program constants
\* ------------------------------------------------------------------------
CACHE_TTL == 3600

\* ------------------------------------------------------------------------
\* State
\* ------------------------------------------------------------------------
VARIABLES
    enabled,    \* settings.CACHE_ENABLED
    client,     \* RedisCache._client: "conn" or "none"
    redis_up,   \* whether the Redis server answers
    store,      \* the Redis database: key -> NoEntry or [text, exp]
    now,        \* the store's clock, in seconds
    last,       \* the last cache-level call and what it returned
    wr,         \* per key, the last write a caller made with the store available
    input,      \* the frame the caller hands to the DataCleaner
    orig,       \* the value that frame had when it was handed over
    df_clean,   \* the frame the DataCleaner builds and returns
    cur,        \* which object clean's df_clean names: "caller" or "own"
    flags,      \* the five step flags of clean
    pc,         \* position of the cleaner call
    log,        \* the steps and calls run so far, with argument and result
    reqs,       \* the analyze requests: options, position, frame, results
    sets        \* per sub-analysis key, the request whose set came last

cacheVars == <<enabled, client, redis_up, store, now, last, wr>>
cleanVars == <<input, orig, df_clean, cur, flags, pc, log>>
reqVars == <<reqs, sets>>
vars == <<cacheVars, cleanVars, reqVars>>

\* The cleaner before any call.
NoTable == [cols |-> <<>>, kind |-> <<>>, rows |-> <<>>]
IdleCleaner ==
    /\ input = NoTable
    /\ orig = NoTable
    /\ df_clean = NoTable
    /\ cur = "caller"
    /\ flags = <<>>
    /\ pc = "idle"
    /\ log = <<>>

\* No analyze request.
IdleRequests ==
    /\ reqs = <<>>
    /\ sets = <<>>

\* ------------------------------------------------------------------------
\* Values, their JSON form, keys
\* ------------------------------------------------------------------------
\* Python values a caller may hand to set: <<type, payload>>.
PyNone == <<"none", "">>
PyValues ==
    { PyNone, <<"int", "7">>, <<"dict", "{a:1}">>, <<"tuple", "[1,2]">>,
      <<"obj", "7">>, <<"cyclic", "">> }

\* Values that json.dumps / json.loads carry unchanged.
JsonNative == { PyNone, <<"int", "7">>, <<"dict", "{a:1}">>, <<"str", "7">>,
                <<"list", "[1,2]">> }

\* json.dumps(value, default=str): a tuple is written as an array, an object
\* json cannot encode is written as the JSON string of str(value), a
\* circular structure raises ValueError.
JsonDumpsRaises(v) == v[1] = "cyclic"

JsonDumpsLossy(v) == <<"jstr", v[2]>>

JsonDumps(v) ==
    CASE v[1] = "none"  -> <<"jnull", "">>
      [] v[1] = "int"   -> <<"jnum", v[2]>>
      [] v[1] = "str"   -> <<"jstr", v[2]>>
      [] v[1] = "dict"  -> <<"jobj", v[2]>>
      [] v[1] = "list"  -> <<"jarr", v[2]>>
      [] v[1] = "tuple" -> <<"jarr", v[2]>>
      [] v[1] = "obj"   -> <<"jstr", v[2]>>
      [] OTHER          -> <<"jnull", "">>

\* json.loads(text)
JsonLoads(t) ==
    CASE t[1] = "jnull" -> PyNone
      [] t[1] = "jnum"  -> <<"int", t[2]>>
      [] t[1] = "jstr"  -> <<"str", t[2]>>
      [] t[1] = "jobj"  -> <<"dict", t[2]>>
      [] t[1] = "jarr"  -> <<"list", t[2]>>
      [] OTHER          -> PyNone

\* Keys are "a:b:c" strings; their parts are kept apart for pattern matching.
\* "analysis:{file_hash}:{analysis_type}" and "{key_prefix}:{func}:cache:{md5}".
Hashes == { "h1", "h2" }
Keys == { <<"analysis", "h1", "kpis">>, <<"analysis", "h1", "stats">>,
          <<"analysis", "h2", "kpis">>, <<"stats", "f", "cache:x">> }

NoEntry == [text |-> <<"", "">>, exp |-> 0]
EmptyStore == [k \in Keys |-> NoEntry]

\* ttl argument of set: not given (None) or an integer.
NoTtl == [given |-> FALSE, v |-> 0]
TtlArgs == { NoTtl } \cup { [given |-> TRUE, v |-> n] : n \in {-1, 0, 1, 2} }

Present(s, k) == s[k] # NoEntry

\* What one Redis command can do: answer ("ok"), find the store unavailable at
\* the is_available probe ("unavail"), or fail after the probe ("error").
Outcomes == { "ok", "unavail", "error" }

\* RedisCache.is_available, as far as the process state decides it.
Configured == enabled /\ client = "conn"

\* The outcomes a call can have in the current state.
PossibleOutcomes ==
    IF Configured /\ redis_up THEN Outcomes ELSE { "unavail" }

\* What an except clause of RedisCache does with a failed store command: the
\* default is returned and nothing is raised.
SwallowRaises(default, s) == [ret |-> default, raised |-> TRUE, store |-> s]

Swallow(default, s) == [ret |-> default, raised |-> FALSE, store |-> s]

\* RedisCache.get
RGetRaw(s, k, o) ==
    IF o = "unavail" THEN [ret |-> PyNone, raised |-> FALSE, store |-> s]
    ELSE IF o = "error" THEN Swallow(PyNone, s)
    ELSE IF ~Present(s, k) THEN [ret |-> PyNone, raised |-> FALSE, store |-> s]
    ELSE [ret |-> s[k].text, raised |-> FALSE, store |-> s]

RGet(s, k, o) ==
    IF o = "unavail" THEN [ret |-> PyNone, raised |-> FALSE, store |-> s]
    ELSE IF o = "error" THEN Swallow(PyNone, s)
    ELSE IF ~Present(s, k) THEN [ret |-> PyNone, raised |-> FALSE, store |-> s]
    ELSE [ret |-> JsonLoads(s[k].text), raised |-> FALSE, store |-> s]

\* ttl = ttl or settings.CACHE_TTL
EffectiveTtl(ttl) == IF ~ttl.given \/ ttl.v = 0 THEN CACHE_TTL ELSE ttl.v

\* SETEX key ttl text at time t: Redis refuses a ttl that is not positive.
SetexNoExpiry(s, k, ttl, text, t) ==
    [s EXCEPT ![k] = [text |-> text, exp |-> (MaxTicks + 2) * CACHE_TTL]]

Setex(s, k, ttl, text, t) ==
    [s EXCEPT ![k] = [text |-> text, exp |-> t + ttl]]

\* RedisCache.set
RSet(s, k, v, ttl, o, t) ==
    IF o = "unavail" THEN [ret |-> FALSE, raised |-> FALSE, store |-> s]
    ELSE IF JsonDumpsRaises(v) \/ EffectiveTtl(ttl) <= 0 \/ o = "error"
         THEN Swallow(FALSE, s)
    ELSE [ret |-> TRUE, raised |-> FALSE,
          store |-> Setex(s, k, EffectiveTtl(ttl), JsonDumps(v), t)]

\* RedisCache.delete
RDeleteKeeps(s, k, o) == [ret |-> Present(s, k), raised |-> FALSE, store |-> s]

RDelete(s, k, o) ==
    IF o = "unavail" THEN [ret |-> FALSE, raised |-> FALSE, store |-> s]
    ELSE IF o = "error" THEN Swallow(FALSE, s)
    ELSE [ret |-> Present(s, k), raised |-> FALSE,
          store |-> [s EXCEPT ![k] = NoEntry]]

\* KEYS "analysis:{h}:*"
MatchingAnyHash(s, h) == { k \in Keys : Present(s, k) /\ k[1] = "analysis" }

Matching(s, h) == { k \in Keys : Present(s, k) /\ k[1] = "analysis" /\ k[2] = h }

\* RedisCache.delete_pattern
RDeletePattern(s, h, o) ==
    IF o = "unavail" THEN [ret |-> 0, raised |-> FALSE, store |-> s]
    ELSE IF o = "error" THEN Swallow(0, s)
    ELSE [ret |-> Cardinality(Matching(s, h)), raised |-> FALSE,
          store |-> [k \in Keys |-> IF k \in Matching(s, h) THEN NoEntry ELSE s[k]]]

\* RedisCache.clear
RClear(s, o) ==
    IF o = "unavail" THEN [ret |-> FALSE, raised |-> FALSE, store |-> s]
    ELSE IF o = "error" THEN Swallow(FALSE, s)
    ELSE [ret |-> TRUE, raised |-> FALSE, store |-> EmptyStore]

\* The store drops the entries whose time-to-live has elapsed at time t.
Expire(s, t) == [k \in Keys |-> IF Present(s, k) /\ s[k].exp <= t THEN NoEntry ELSE s[k]]

\* ------------------------------------------------------------------------
\* Calls of the cache, one action per method
\* ------------------------------------------------------------------------
\* The record kept of the last call: op, key, the outcome of its read (out)
\* and of its write (setout, "skip" when none was attempted), the value
\* returned (ret), the boolean returned (flag), the count returned (n),
\* whether an exception left the call (raised) and, for a wrapped function,
\* the value it computed (fresh) and whether it ran (computed).
Call(op, k, out, setout, ret, flag, n, raised, fresh, computed) ==
    [op |-> op, key |-> k, out |-> out, setout |-> setout, ret |-> ret,
     flag |-> flag, n |-> n, raised |-> raised, fresh |-> fresh,
     computed |-> computed]

NoKey == <<"", "", "">>
NoCall(op) == Call(op, NoKey, "ok", "skip", PyNone, FALSE, 0, FALSE, PyNone, FALSE)

\* What is remembered of the last write to a key made with the store available.
NoWrite == [kind |-> "none", val |-> PyNone, ttl |-> NoTtl, at |-> 0]
Wrote(v, ttl, t) == [kind |-> "set", val |-> v, ttl |-> ttl, at |-> t]
Deleted == [kind |-> "del", val |-> PyNone, ttl |-> NoTtl, at |-> 0]
Unknown == [kind |-> "other", val |-> PyNone, ttl |-> NoTtl, at |-> 0]

Get(k) ==
    \E o \in PossibleOutcomes :
        LET r == RGet(store, k, o) IN
        /\ last' = Call("get", k, o, "skip", r.ret, FALSE, 0, r.raised, PyNone, FALSE)
        /\ store' = r.store
        /\ UNCHANGED <<enabled, client, redis_up, now, wr>>
        /\ UNCHANGED <<cleanVars, reqVars>>

Set(k, v, ttl) ==
    \E o \in PossibleOutcomes :
        LET r == RSet(store, k, v, ttl, o, now) IN
        /\ last' = Call("set", k, "ok", IF r.ret THEN "ok" ELSE IF o = "ok" THEN "error" ELSE o,
                        PyNone, r.ret, 0, r.raised, PyNone, FALSE)
        /\ store' = r.store
        /\ wr' = IF r.ret THEN [wr EXCEPT ![k] = Wrote(v, ttl, now)] ELSE wr
        /\ UNCHANGED <<enabled, client, redis_up, now>>
        /\ UNCHANGED <<cleanVars, reqVars>>

Delete(k) ==
    \E o \in PossibleOutcomes :
        LET r == RDelete(store, k, o) IN
        /\ last' = Call("delete", k, "ok", o, PyNone, r.ret, 0, r.raised, PyNone, FALSE)
        /\ store' = r.store
        /\ wr' = IF o = "ok" THEN [wr EXCEPT ![k] = Deleted] ELSE wr
        /\ UNCHANGED <<enabled, client, redis_up, now>>
        /\ UNCHANGED <<cleanVars, reqVars>>

\* invalidate_file_cache(h): delete_pattern("analysis:{h}:*")
DeletePattern(h) ==
    \E o \in PossibleOutcomes :
        LET r == RDeletePattern(store, h, o) IN
        /\ last' = Call("delete_pattern", <<"analysis", h, "*">>, "ok", o, PyNone, FALSE,
                        r.ret, r.raised, PyNone, FALSE)
        /\ store' = r.store
        /\ wr' = IF o = "ok"
                 THEN [k \in Keys |-> IF k[1] = "analysis" /\ k[2] = h THEN Unknown ELSE wr[k]]
                 ELSE wr
        /\ UNCHANGED <<enabled, client, redis_up, now>>
        /\ UNCHANGED <<cleanVars, reqVars>>

Clear ==
    \E o \in PossibleOutcomes :
        LET r == RClear(store, o) IN
        /\ last' = Call("clear", NoKey, "ok", o, PyNone, r.ret, 0, r.raised, PyNone, FALSE)
        /\ store' = r.store
        /\ wr' = IF o = "ok" THEN [k \in Keys |-> Unknown] ELSE wr
        /\ UNCHANGED <<enabled, client, redis_up, now>>
        /\ UNCHANGED <<cleanVars, reqVars>>

\* cached(ttl, key_prefix).wrapper around a function whose call computes v.
\* o0 is the wrapper's own availability probe, o1 the get, o2 the set.
CachedWrapper(s, k, v, ttl, o0, o1, o2, t) ==
    IF o0 = "unavail"
    THEN [ret |-> v, raised |-> FALSE, store |-> s, computed |-> TRUE,
          out |-> "unavail", setout |-> "skip"]
    ELSE LET g == RGet(s, k, o1) IN
         IF g.raised
         THEN [ret |-> PyNone, raised |-> TRUE, store |-> s, computed |-> FALSE,
               out |-> o1, setout |-> "skip"]
         ELSE IF g.ret # PyNone
         THEN [ret |-> g.ret, raised |-> FALSE, store |-> s, computed |-> FALSE,
               out |-> o1, setout |-> "skip"]
         ELSE LET w == RSet(s, k, v, ttl, o2, t) IN
              [ret |-> v, raised |-> w.raised, store |-> w.store, computed |-> TRUE,
               out |-> o1, setout |-> IF w.ret THEN "ok" ELSE IF o2 = "ok" THEN "error" ELSE o2]

CachedCall(k, v, ttl) ==
    \E o0 \in PossibleOutcomes \ {"error"}, o1, o2 \in PossibleOutcomes :
        LET r == CachedWrapper(store, k, v, ttl, o0, o1, o2, now) IN
        /\ last' = Call("cached", k, r.out, r.setout, r.ret, FALSE, 0, r.raised, v, r.computed)
        /\ store' = r.store
        /\ wr' = IF r.setout = "ok" THEN [wr EXCEPT ![k] = Wrote(v, ttl, now)] ELSE wr
        /\ UNCHANGED <<enabled, client, redis_up, now>>
        /\ UNCHANGED <<cleanVars, reqVars>>

\* cache_analysis_result(file_hash, analysis_type).wrapper
AnalysisWrapper(s, k, v, o1, o2, t) ==
    LET g == RGet(s, k, o1) IN
    IF g.raised
    THEN [ret |-> PyNone, raised |-> TRUE, store |-> s, computed |-> FALSE,
          out |-> o1, setout |-> "skip"]
    ELSE IF g.ret # PyNone
    THEN [ret |-> g.ret, raised |-> FALSE, store |-> s, computed |-> FALSE,
          out |-> o1, setout |-> "skip"]
    ELSE LET w == RSet(s, k, v, [given |-> TRUE, v |-> CACHE_TTL], o2, t) IN
         [ret |-> v, raised |-> w.raised, store |-> w.store, computed |-> TRUE,
          out |-> o1, setout |-> IF w.ret THEN "ok" ELSE IF o2 = "ok" THEN "error" ELSE o2]

AnalysisCall(k, v) ==
    \E o1, o2 \in PossibleOutcomes :
        LET r == AnalysisWrapper(store, k, v, o1, o2, now) IN
        /\ last' = Call("analysis", k, r.out, r.setout, r.ret, FALSE, 0, r.raised, v, r.computed)
        /\ store' = r.store
        /\ wr' = IF r.setout = "ok"
                 THEN [wr EXCEPT ![k] = Wrote(v, [given |-> TRUE, v |-> CACHE_TTL], now)]
                 ELSE wr
        /\ UNCHANGED <<enabled, client, redis_up, now>>
        /\ UNCHANGED <<cleanVars, reqVars>>

\* Time passes; the store expires what is due.
TickSteps == { 1, CACHE_TTL }

\* The number of steps the clock has made to reach time t.
Ticks(t) == (t \div CACHE_TTL) + (t % CACHE_TTL)

Tick ==
    \E d \in TickSteps :
        /\ Ticks(now + d) <= MaxTicks
        /\ now' = now + d
        /\ store' = Expire(store, now + d)
        /\ last' = NoCall("tick")
        /\ UNCHANGED <<enabled, client, redis_up, wr>>
        /\ UNCHANGED <<cleanVars, reqVars>>

\* The Redis server stops or starts answering.
RedisFlip ==
    /\ redis_up' = ~redis_up
    /\ last' = NoCall("flip")
    /\ UNCHANGED <<enabled, client, store, now, wr>>
    /\ UNCHANGED <<cleanVars, reqVars>>

\* RedisCache.__init__ as run once at import (cache = RedisCache()): the
\* client exists only if the cache is enabled and the connection test passed.
InitClient(en, up) == IF en /\ up THEN "conn" ELSE "none"

InitCache ==
    /\ enabled \in BOOLEAN
    /\ redis_up \in BOOLEAN
    /\ client = InitClient(enabled, redis_up)
    /\ store = EmptyStore
    /\ now = 0
    /\ last = NoCall("init")
    /\ wr = [k \in Keys |-> NoWrite]
    /\ IdleCleaner
    /\ IdleRequests

\* The cache methods under a running clock.
TimedKeys == { <<"analysis", "h1", "kpis">>, <<"stats", "f", "cache:x">> }
TimedValues == { <<"dict", "{a:1}">>, <<"tuple", "[1,2]">>, <<"cyclic", "">> }
TimedTtls == { NoTtl } \cup { [given |-> TRUE, v |-> n] : n \in {-1, 0, 1} }

NextCache ==
    \/ \E k \in TimedKeys : Get(k)
    \/ \E k \in TimedKeys, v \in TimedValues, ttl \in TimedTtls : Set(k, v, ttl)
    \/ \E k \in TimedKeys : Delete(k)
    \/ Tick
    \/ RedisFlip

SpecCache == InitCache /\ [][NextCache]_vars

\* The cache methods and the two decorators, with the store failing at will.
WrapKeys == { <<"analysis", "h1", "kpis">>, <<"stats", "f", "cache:x">> }
WrapValues == { PyNone, <<"dict", "{a:1}">> }
WrapTtls == { NoTtl, [given |-> TRUE, v |-> -1] }

NextWrap ==
    \/ \E k \in WrapKeys : Get(k)
    \/ \E k \in WrapKeys, v \in WrapValues, ttl \in WrapTtls : Set(k, v, ttl)
    \/ \E k \in WrapKeys : Delete(k)
    \/ DeletePattern("h1")
    \/ Clear
    \/ \E k \in WrapKeys, v \in WrapValues : CachedCall(k, v, NoTtl)
    \/ \E k \in WrapKeys, v \in WrapValues : AnalysisCall(k, v)
    \/ RedisFlip

SpecWrap == InitCache /\ [][NextWrap]_vars

\* invalidate_file_cache among entries of two uploads and of a wrapped
\* function.
NextInvalidate ==
    \/ \E k \in Keys : Get(k)
    \/ \E k \in Keys : Set(k, <<"dict", "{a:1}">>, NoTtl)
    \/ \E h \in Hashes : DeletePattern(h)
    \/ RedisFlip

SpecInvalidate == InitCache /\ [][NextInvalidate]_vars

\* ------------------------------------------------------------------------
\* Tables: numbers, cells, columns
\* ------------------------------------------------------------------------
\* A number is a fraction <<n, d>>, d > 0, in lowest terms; NaN is <<0, 0>>.
NaN == <<0, 0>>
IsNaN(x) == x[2] = 0
Abs(i) == IF i < 0 THEN -i ELSE i

RECURSIVE Gcd(_, _)
Gcd(a, b) == IF b = 0 THEN a ELSE Gcd(b, a % b)

Frac(n, d) == LET g == Gcd(Abs(n), d) IN <<n \div g, d \div g>>
Num(i) == <<i, 1>>
FAdd(x, y) == Frac(x[1] * y[2] + y[1] * x[2], x[2] * y[2])
FSub(x, y) == Frac(x[1] * y[2] - y[1] * x[2], x[2] * y[2])
FMul(x, y) == Frac(x[1] * y[1], x[2] * y[2])
FScale(x, p, q) == Frac(x[1] * p, x[2] * q)
FLe(x, y) == x[1] * y[2] <= y[1] * x[2]
FLt(x, y) == x[1] * y[2] < y[1] * x[2]

\* A text cell is a sequence of character codes; a missing one is <<0>>.
NA == <<0>>
Space == <<32>>
IsMissing(kind, x) == IF kind = "num" THEN IsNaN(x) ELSE x = NA

\* Order of two strings by code point.
RECURSIVE StrLe(_, _)
StrLe(a, b) ==
    IF a = <<>> THEN TRUE
    ELSE IF b = <<>> THEN FALSE
    ELSE IF Head(a) # Head(b) THEN Head(a) < Head(b)
    ELSE StrLe(Tail(a), Tail(b))

\* A table: the column names in order, each column's dtype ("num" or "obj")
\* and the rows, each a function from column name to cell.
Table(cols, kind, rows) == [cols |-> cols, kind |-> kind, rows |-> rows]
Elems(s) == { s[i] : i \in 1..Len(s) }
NRows(t) == Len(t.rows)
Column(t, c) == [i \in 1..NRows(t) |-> t.rows[i][c]]
HasColumn(t, c) == \E i \in 1..Len(t.cols) : t.cols[i] = c
NumericColumns(t) == SelectSeq(t.cols, LAMBDA c : t.kind[c] = "num")
ObjectColumns(t) == SelectSeq(t.cols, LAMBDA c : t.kind[c] = "obj")

\* df[mask]: the rows whose index is in keep, in order.
RECURSIVE KeepRows(_, _, _)
KeepRows(rows, keep, i) ==
    IF i > Len(rows) THEN <<>>
    ELSE (IF i \in keep THEN <<rows[i]>> ELSE <<>>) \o KeepRows(rows, keep, i + 1)

Filter(t, keep) == Table(t.cols, t.kind, KeepRows(t.rows, keep, 1))

\* df[c] = values
SetColumn(t, c, vals) ==
    Table(t.cols, t.kind, [i \in 1..NRows(t) |-> [t.rows[i] EXCEPT ![c] = vals[i]]])

\* The non-missing numbers of a sequence, sorted.
RECURSIVE InsertSorted(_, _)
InsertSorted(x, s) ==
    IF s = <<>> THEN <<x>>
    ELSE IF FLe(x, Head(s)) THEN <<x>> \o s
    ELSE <<Head(s)>> \o InsertSorted(x, Tail(s))

RECURSIVE SortedValues(_)
SortedValues(s) ==
    IF s = <<>> THEN <<>>
    ELSE IF IsNaN(Head(s)) THEN SortedValues(Tail(s))
    ELSE InsertSorted(Head(s), SortedValues(Tail(s)))

\* Series.quantile(p/4), linear interpolation between the two nearest ranks;
\* NaN when there is no value.
Quantile(s, p) ==
    LET v == SortedValues(s)
        m == Len(v)
        lo == (p * (m - 1)) \div 4
        r == (p * (m - 1)) % 4
    IN IF m = 0 THEN NaN
       ELSE IF r = 0 THEN v[lo + 1]
       ELSE FAdd(v[lo + 1], FScale(FSub(v[lo + 2], v[lo + 1]), r, 4))

\* ------------------------------------------------------------------------
\* DataCleaner: outlier removal
\* ------------------------------------------------------------------------
\* settings.OUTLIER_THRESHOLD = 1.5, as the fraction 3/2
OUTLIER_THRESHOLD == <<3, 2>>

Q1(s) == Quantile(s, 1)
Q3(s) == Quantile(s, 3)
\* lower_bound and upper_bound of a column
Bounds(s) ==
    LET q1 == Q1(s)
        q3 == Q3(s)
        IQR == FSub(q3, q1)
    IN << FSub(q1, FMul(OUTLIER_THRESHOLD, IQR)), FAdd(q3, FMul(OUTLIER_THRESHOLD, IQR)) >>

LowerBound(s) == Bounds(s)[1]
UpperBound(s) == Bounds(s)[2]

\* mask = (df[column] >= lower_bound) & (df[column] <= upper_bound); a
\* comparison with NaN is False.
WithinOrMissing(x, lower, upper) ==
    IsNaN(x) \/ (~IsNaN(lower) /\ FLe(lower, x) /\ FLe(x, upper))

Within(x, lower, upper) ==
    /\ ~IsNaN(x)
    /\ ~IsNaN(lower)
    /\ FLe(lower, x)
    /\ FLe(x, upper)

InBounds(x, s) == Within(x, LowerBound(s), UpperBound(s))

\* DataCleaner._remove_outliers_iqr
RemoveOutliersIqr(t, c) ==
    LET bounds == Bounds(Column(t, c)) IN
    Filter(t, { i \in 1..NRows(t) : Within(t.rows[i][c], bounds[1], bounds[2]) })

\* The loop of DataCleaner.remove_outliers over the given columns: each
\* column filters the frame the previous columns left.
RECURSIVE OutlierLoop(_, _)
OutlierLoop(t, columns) ==
    IF columns = <<>> THEN t
    ELSE IF ~HasColumn(t, Head(columns)) THEN OutlierLoop(t, Tail(columns))
    ELSE OutlierLoop(RemoveOutliersIqr(t, Head(columns)), Tail(columns))

\* DataCleaner.remove_outliers(df, columns): the log line after the loop
\* divides by the number of rows of the input.
RemoveOutliers(t, columns) ==
    IF NRows(t) = 0
    THEN [t |-> t, raised |-> TRUE]
    ELSE [t |-> OutlierLoop(t, columns), raised |-> FALSE]

\* ------------------------------------------------------------------------
\* DataCleaner: string cleaning
\* ------------------------------------------------------------------------
\* str.strip()
RECURSIVE LStrip(_)
LStrip(x) == IF x # <<>> /\ <<Head(x)>> = Space THEN LStrip(Tail(x)) ELSE x

RECURSIVE RStrip(_)
RStrip(x) ==
    IF x # <<>> /\ <<x[Len(x)]>> = Space THEN RStrip(SubSeq(x, 1, Len(x) - 1)) ELSE x

Strip(x) == IF x = NA THEN NA ELSE RStrip(LStrip(x))

\* str.replace(r'\s+', ' ', regex=True)
RECURSIVE CollapseRuns(_)
CollapseRuns(x) ==
    IF Len(x) < 2 THEN x
    ELSE IF <<x[1]>> = Space /\ <<x[2]>> = Space THEN CollapseRuns(Tail(x))
    ELSE <<Head(x)>> \o CollapseRuns(Tail(x))

Collapse(x) == IF x = NA THEN NA ELSE CollapseRuns(x)

CleanText(x) == Collapse(Strip(x))

RECURSIVE CleanStringLoop(_, _)
CleanStringLoop(t, columns) ==
    IF columns = <<>> THEN t
    ELSE IF ~HasColumn(t, Head(columns)) THEN CleanStringLoop(t, Tail(columns))
    ELSE CleanStringLoop(
             SetColumn(t, Head(columns),
                       [i \in 1..NRows(t) |-> CleanText(t.rows[i][Head(columns)])]),
             Tail(columns))

\* DataCleaner.clean_string_columns(df)
CleanStringColumns(t) == [t |-> CleanStringLoop(t, ObjectColumns(t)), raised |-> FALSE]

\* ------------------------------------------------------------------------
\* DataCleaner: imputation
\* ------------------------------------------------------------------------
Strategies == { "mean", "median", "most_frequent", "constant", "knn", "ffill", "bfill" }

Present1(kind, s) == { i \in 1..Len(s) : ~IsMissing(kind, s[i]) }
HasMissing(kind, s) == \E i \in 1..Len(s) : IsMissing(kind, s[i])

RECURSIVE SumOver(_, _)
SumOver(s, idx) ==
    IF idx = {} THEN Num(0)
    ELSE LET i == CHOOSE j \in idx : TRUE IN FAdd(s[i], SumOver(s, idx \ {i}))

Mean(s) ==
    LET idx == Present1("num", s) IN
    IF idx = {} THEN NaN ELSE FScale(SumOver(s, idx), 1, Cardinality(idx))

Median(s) ==
    LET v == SortedValues(s)
        m == Len(v)
    IN IF m = 0 THEN NaN
       ELSE IF m % 2 = 1 THEN v[(m + 1) \div 2]
       ELSE FScale(FAdd(v[m \div 2], v[m \div 2 + 1]), 1, 2)

Count(kind, s, x) == Cardinality({ i \in Present1(kind, s) : s[i] = x })

\* The most frequent value; among equally frequent ones, the smallest.
Le(kind, x, y) == IF kind = "num" THEN FLe(x, y) ELSE StrLe(x, y)

MostFrequent(kind, s) ==
    LET idx == Present1(kind, s)
        top == { i \in idx : \A j \in idx : Count(kind, s, s[j]) <= Count(kind, s, s[i]) }
    IN IF idx = {} THEN (IF kind = "num" THEN NaN ELSE NA)
       ELSE s[CHOOSE i \in top : \A j \in top : Le(kind, s[i], s[j])]

\* fillna(method='ffill') and fillna(method='bfill') on one column
RECURSIVE FFill(_, _, _)
FFill(kind, s, prev) ==
    IF s = <<>> THEN <<>>
    ELSE IF IsMissing(kind, Head(s)) THEN <<prev>> \o FFill(kind, Tail(s), prev)
    ELSE <<Head(s)>> \o FFill(kind, Tail(s), Head(s))

Reverse(s) == [i \in 1..Len(s) |-> s[Len(s) + 1 - i]]
Missing(kind) == IF kind = "num" THEN NaN ELSE NA
ForwardFill(kind, s) == FFill(kind, s, Missing(kind))
BackwardFill(kind, s) == Reverse(FFill(kind, Reverse(s), Missing(kind)))

\* KNNImputer(n_neighbors=5) over the columns cols, for a frame of at most six
\* rows (every donor is among the five nearest): the mean of column c over
\* the rows that have c and share an observed column with row i; the mean of
\* the whole column when there is no such row.
KnnDonors(t, cols, c, i) ==
    { j \in 1..NRows(t) :
        /\ ~IsNaN(t.rows[j][c])
        /\ \E k \in 1..Len(cols) :
               ~IsNaN(t.rows[i][cols[k]]) /\ ~IsNaN(t.rows[j][cols[k]]) }

KnnValue(t, cols, c, i) ==
    IF KnnDonors(t, cols, c, i) = {} THEN Mean(Column(t, c))
    ELSE FScale(SumOver(Column(t, c), KnnDonors(t, cols, c, i)), 1,
                Cardinality(KnnDonors(t, cols, c, i)))

\* The value a numeric strategy puts in row i of column c.
NumericFill(t, cols, strategy, c, i) ==
    LET s == Column(t, c) IN
    CASE strategy = "mean"          -> Mean(s)
      [] strategy = "median"        -> Median(s)
      [] strategy = "most_frequent" -> MostFrequent("num", s)
      [] strategy = "constant"      -> Num(0)
      [] strategy = "knn"           -> KnnValue(t, cols, c, i)
      [] strategy = "ffill"         -> ForwardFill("num", s)[i]
      [] strategy = "bfill"         -> BackwardFill("num", s)[i]

FillNumericColumn(t, cols, strategy, c, src) ==
    SetColumn(t, c, [i \in 1..NRows(t) |->
        IF IsNaN(src.rows[i][c]) THEN NumericFill(src, cols, strategy, c, i)
        ELSE src.rows[i][c]])

RECURSIVE FillNumeric(_, _, _, _, _)
FillNumeric(t, cols, strategy, todo, src) ==
    IF todo = <<>> THEN t
    ELSE FillNumeric(FillNumericColumn(t, cols, strategy, Head(todo), src),
                     cols, strategy, Tail(todo), src)

\* SimpleImputer(strategy='most_frequent') on the categorical columns
CategoricalFillFFill(t, c, i) == ForwardFill("obj", Column(t, c))[i]

CategoricalFill(t, c, i) == MostFrequent("obj", Column(t, c))

RECURSIVE FillCategorical(_, _, _)
FillCategorical(t, todo, src) ==
    IF todo = <<>> THEN t
    ELSE FillCategorical(
             SetColumn(t, Head(todo), [i \in 1..NRows(t) |->
                 IF src.rows[i][Head(todo)] = NA THEN CategoricalFill(src, Head(todo), i)
                 ELSE src.rows[i][Head(todo)]]),
             Tail(todo), src)

ColumnsWithMissing(t) ==
    SelectSeq(t.cols, LAMBDA c : HasMissing(t.kind[c], Column(t, c)))

AllMissing(t, c) == Present1(t.kind[c], Column(t, c)) = {}

\* SimpleImputer and KNNImputer drop a column without any observed value
\* (SimpleImputer keeps it for strategy 'constant'); the assignment of the
\* narrower result to df_clean[cols] then raises.
ImputerDropsColumn(t, strategy, cols) ==
    /\ strategy \notin { "constant", "ffill", "bfill" }
    /\ \E k \in 1..Len(cols) : AllMissing(t, cols[k])

\* DataCleaner.impute_missing_values(df, strategy)
ImputeMissingValues(t, strategy) ==
    LET missing == ColumnsWithMissing(t)
        numeric == SelectSeq(missing, LAMBDA c : t.kind[c] = "num")
        categorical == SelectSeq(missing, LAMBDA c : t.kind[c] = "obj")
    IN IF missing = <<>> THEN [t |-> t, raised |-> FALSE]
       ELSE IF ImputerDropsColumn(t, strategy, numeric)
                \/ ImputerDropsColumn(t, "most_frequent", categorical)
       THEN [t |-> t, raised |-> TRUE]
       ELSE [t |-> FillCategorical(FillNumeric(t, numeric, strategy, numeric, t),
                                   categorical, t),
             raised |-> FALSE]

\* ------------------------------------------------------------------------
\* DataCleaner: normalization and encoding
\* ------------------------------------------------------------------------
\* Population variance of the observed values (StandardScaler.var_)
Variance(s) ==
    LET idx == Present1("num", s)
        mu == Mean(s)
        sq == [i \in 1..Len(s) |-> IF i \in idx THEN FMul(FSub(s[i], mu), FSub(s[i], mu))
                                   ELSE NaN]
    IN IF idx = {} THEN NaN ELSE FScale(SumOver(sq, idx), 1, Cardinality(idx))

\* StandardScaler.transform of one value: (x - mean) / sqrt(var), the scale
\* being 1 for a constant column; the quotient by an irrational scale is kept
\* as <<"z", x - mean, var>>.  NaN stays NaN.
Standardize(x, s) ==
    IF IsNaN(x) THEN NaN
    ELSE IF Variance(s) = Num(0) THEN FSub(x, Mean(s))
    ELSE <<"z", FSub(x, Mean(s)), Variance(s)>>

RECURSIVE NormalizeLoop(_, _, _)
NormalizeLoop(t, todo, src) ==
    IF todo = <<>> THEN t
    ELSE NormalizeLoop(
             SetColumn(t, Head(todo), [i \in 1..NRows(t) |->
                 Standardize(src.rows[i][Head(todo)], Column(src, Head(todo)))]),
             Tail(todo), src)

\* self.scalers[col] = scaler
FittedScalers(t) ==
    [c \in { NumericColumns(t)[k] : k \in 1..Len(NumericColumns(t)) } |->
        <<Mean(Column(t, c)), Variance(Column(t, c))>>]

\* DataCleaner.normalize_numeric_columns(df): StandardScaler refuses a frame
\* without rows.
NormalizeNumericColumns(t) ==
    IF NumericColumns(t) = <<>> THEN [t |-> t, raised |-> FALSE, fitted |-> <<>>]
    ELSE IF NRows(t) = 0 THEN [t |-> t, raised |-> TRUE, fitted |-> <<>>]
    ELSE [t |-> NormalizeLoop(t, NumericColumns(t), t), raised |-> FALSE,
          fitted |-> FittedScalers(t)]

\* astype(str): a missing cell becomes the string "nan".
NanString == <<110, 97, 110>>
AsStr(x) == IF x = NA THEN NanString ELSE x

\* LabelEncoder.fit_transform: the rank of the value among the sorted
\* distinct values of the column.
Classes(s) == { AsStr(s[i]) : i \in 1..Len(s) }
Label(x, s) == Cardinality({ y \in Classes(s) : StrLe(y, AsStr(x)) /\ y # AsStr(x) })

RECURSIVE EncodeLoop(_, _, _)
EncodeLoop(t, todo, src) ==
    IF todo = <<>> THEN t
    ELSE LET c == Head(todo)
             u == SetColumn(t, c, [i \in 1..NRows(t) |->
                                      Num(Label(src.rows[i][c], Column(src, c)))])
         IN EncodeLoop(Table(u.cols, [u.kind EXCEPT ![c] = "num"], u.rows),
                       Tail(todo), src)

\* self.encoders[col] = le
FittedEncoders(t) ==
    [c \in { ObjectColumns(t)[k] : k \in 1..Len(ObjectColumns(t)) } |->
        Classes(Column(t, c))]

\* DataCleaner.encode_categorical_columns(df), method "label"
EncodeCategoricalColumns(t) ==
    IF ObjectColumns(t) = <<>> THEN [t |-> t, raised |-> FALSE, fitted |-> <<>>]
    ELSE [t |-> EncodeLoop(t, ObjectColumns(t), t), raised |-> FALSE,
          fitted |-> FittedEncoders(t)]

\* ------------------------------------------------------------------------
\* DataCleaner.clean
\* ------------------------------------------------------------------------
\* The steps of clean in the order its body runs them.
StepOrderOutliersLast ==
    << "clean_strings", "impute_missing", "remove_outliers", "normalize",
       "encode_categorical" >>

StepOrder ==
    << "clean_strings", "remove_outliers", "impute_missing", "normalize",
       "encode_categorical" >>

StepNames == { StepOrder[i] : i \in 1..Len(StepOrder) }

\* What one step returns for the frame it is given: the result, whether it
\* raised, and whether the result is a frame the step wrote in place after
\* df.copy() (remove_outliers returns a new selection df[mask] instead).
RunStep(name, t) ==
    LET Result(r, inplace) == [t |-> r.t, raised |-> r.raised, inplace |-> inplace] IN
    CASE name = "clean_strings" -> Result(CleanStringColumns(t), TRUE)
      [] name = "remove_outliers" ->
            Result(RemoveOutliers(t, NumericColumns(t)), NumericColumns(t) = <<>>)
      [] name = "impute_missing" -> Result(ImputeMissingValues(t, "median"), TRUE)
      [] name = "normalize" -> Result(NormalizeNumericColumns(t), TRUE)
      [] name = "encode_categorical" -> Result(EncodeCategoricalColumns(t), TRUE)

\* clean as a function: the enabled steps from position i on, applied to t.
RECURSIVE CleanFrom(_, _, _)
CleanFrom(t, fl, i) ==
    IF i > Len(StepOrder) THEN [t |-> t, raised |-> FALSE]
    ELSE IF ~fl[StepOrder[i]] THEN CleanFrom(t, fl, i + 1)
    ELSE LET r == RunStep(StepOrder[i], t) IN
         IF r.raised THEN [t |-> t, raised |-> TRUE] ELSE CleanFrom(r.t, fl, i + 1)

CleanTable(t, fl) == CleanFrom(t, fl, 1)

\* clean(df) with its defaults: remove_outliers, impute_missing, clean_strings
DefaultFlags ==
    [n \in StepNames |-> n \in { "clean_strings", "remove_outliers", "impute_missing" }]

\* ------------------------------------------------------------------------
\* DataCleaner calls
\* ------------------------------------------------------------------------
\* df.copy(): a new object with the same content.  Frames are the caller's
\* object ("caller") or an object the cleaner made ("own").
DfCopyAlias(ref) == ref

DfCopy(ref) == "own"

Frame(ref) == IF ref = "caller" THEN input ELSE df_clean

Entry(name, param, arg, out, raised) ==
    [name |-> name, param |-> param, arg |-> arg, out |-> out, raised |-> raised]

\* A step body: df_clean = df.copy(), then the step's column assignments on
\* df_clean (remove_outliers rebinds df_clean to the selection df[mask]).
\* ref is the object handed to the step; the result names the object written.
StepTarget(name, ref) ==
    IF RunStep(name, Frame(ref)).inplace THEN DfCopy(ref) ELSE "own"

WriteFrame(target, t) ==
    /\ input' = IF target = "caller" THEN t ELSE input
    /\ df_clean' = IF target = "own" THEN t ELSE df_clean
    /\ cur' = target

\* Where clean stands after the step name: at the next step of its body, or
\* at its return statement.
Position(name) == CHOOSE i \in 1..Len(StepOrder) : StepOrder[i] = name
After(name) ==
    IF Position(name) = Len(StepOrder) THEN "return" ELSE StepOrder[Position(name) + 1]

\* clean, line by line: df_clean = df.copy()
CleanBegin ==
    /\ pc = "call"
    /\ WriteFrame(DfCopy("caller"), input)
    /\ pc' = StepOrder[1]
    /\ UNCHANGED <<orig, flags, log>>
    /\ UNCHANGED <<cacheVars, reqVars>>

\* if <flag>: df_clean = self.<step>(df_clean)
CleanStep(name) ==
    /\ pc = name
    /\ IF ~flags[name]
       THEN /\ pc' = After(name)
            /\ UNCHANGED <<input, df_clean, cur, log>>
       ELSE LET r == RunStep(name, Frame(cur)) IN
            IF r.raised
            THEN /\ pc' = "raised"
                 /\ UNCHANGED <<input, df_clean, cur, log>>
            ELSE /\ WriteFrame(StepTarget(name, cur), r.t)
                 /\ log' = Append(log, Entry(name, "", Frame(cur), r.t, FALSE))
                 /\ pc' = After(name)
    /\ UNCHANGED <<orig, flags>>
    /\ UNCHANGED <<cacheVars, reqVars>>

\* return df_clean
CleanReturn ==
    /\ pc = "return"
    /\ pc' = "done"
    /\ UNCHANGED <<input, orig, df_clean, cur, flags, log>>
    /\ UNCHANGED <<cacheVars, reqVars>>

\* One step called on its own with the caller's frame.
StepCall(name) ==
    /\ pc = "call"
    /\ LET r == RunStep(name, input) IN
       IF r.raised
       THEN /\ pc' = "step_raised"
            /\ UNCHANGED <<input, df_clean, cur, log>>
       ELSE /\ WriteFrame(StepTarget(name, "caller"), r.t)
            /\ log' = Append(log, Entry(name, "", input, r.t, FALSE))
            /\ pc' = "step_done"
    /\ UNCHANGED <<orig, flags>>
    /\ UNCHANGED <<cacheVars, reqVars>>

\* remove_outliers(df, columns) called on its own, once per column order.
RemoveOutliersCall(columns) ==
    /\ pc = "call"
    /\ \A k \in 1..Len(log) : log[k].param # columns
    /\ LET r == RemoveOutliers(input, columns) IN
       /\ log' = Append(log, Entry("remove_outliers", columns, input, r.t, r.raised))
       /\ df_clean' = r.t
       /\ cur' = "own"
    /\ UNCHANGED <<input, orig, flags, pc>>
    /\ UNCHANGED <<cacheVars, reqVars>>

\* impute_missing_values(df, strategy) called on its own.
ImputeCall(strategy) ==
    /\ pc = "call"
    /\ LET r == ImputeMissingValues(input, strategy) IN
       /\ log' = Append(log, Entry("impute_missing", strategy, input, r.t, r.raised))
       /\ df_clean' = r.t
       /\ cur' = "own"
       /\ pc' = IF r.raised THEN "step_raised" ELSE "step_done"
    /\ UNCHANGED <<input, orig, flags>>
    /\ UNCHANGED <<cacheVars, reqVars>>

\* clean(df) with its defaults, as one call; a second call is given what the
\* first returned.
CleanCall ==
    /\ pc \in { "call", "again" }
    /\ LET arg == IF pc = "call" THEN input ELSE df_clean
           r == CleanTable(arg, flags)
       IN /\ log' = Append(log, Entry("clean", "", arg, r.t, r.raised))
          /\ df_clean' = r.t
          /\ cur' = "own"
          /\ pc' = IF r.raised THEN "raised" ELSE IF pc = "call" THEN "again" ELSE "done"
    /\ UNCHANGED <<input, orig, flags>>
    /\ UNCHANGED <<cacheVars, reqVars>>

\* The cache while the cleaner is exercised.
IdleCache ==
    /\ enabled = FALSE
    /\ redis_up = FALSE
    /\ client = InitClient(FALSE, FALSE)
    /\ store = EmptyStore
    /\ now = 0
    /\ last = NoCall("init")
    /\ wr = [k \in Keys |-> NoWrite]

\* The rows over the given columns and cell values.
RECURSIVE RowsOn(_, _)
RowsOn(names, cells) ==
    IF names = {} THEN { [c \in {} |-> NaN] }
    ELSE LET c == CHOOSE x \in names : TRUE IN
         { (c :> v) @@ r : v \in cells[c], r \in RowsOn(names \ { c }, cells) }
RowsOver(kind, cells) == RowsOn(DOMAIN kind, cells)

\* A call is about to be made with some table of at most maxn rows.
InitCleaner(cols, kind, cells, maxn, flagsets) ==
    /\ IdleCache
    /\ IdleRequests
    /\ \E n \in 0..maxn : \E r \in [1..n -> RowsOver(kind, cells)] :
           input = Table(cols, kind, r)
    /\ orig = input
    /\ df_clean = NoTable
    /\ cur = "caller"
    /\ flags \in flagsets
    /\ pc = "call"
    /\ log = <<>>

\* Text cells: " a" and "b"
TextA == <<32, 97>>
TextB == <<98>>

\* remove_outliers on two numeric columns, in both column orders.
MaxRows == 5
OutlierKind == [prix |-> "num", quantite |-> "num"]
OutlierCells == [prix |-> { NaN, Num(0), Num(1) }, quantite |-> { Num(0), Num(1) }]
OutlierCols == <<"prix", "quantite">>

InitOutlier == InitCleaner(OutlierCols, OutlierKind, OutlierCells, MaxRows, { DefaultFlags })

NextOutlier ==
    \/ RemoveOutliersCall(<<"prix", "quantite">>)
    \/ RemoveOutliersCall(<<"quantite", "prix">>)

SpecOutlier == InitOutlier /\ [][NextOutlier]_vars

\* clean under every flag combination, and each step on its own.
MaxCleanRows == 2
CleanKind == [prix |-> "num", produit |-> "obj"]
CleanCells == [prix |-> { NaN, Num(0), Num(1) }, produit |-> { NA, TextA }]
CleanCols == <<"prix", "produit">>

InitClean ==
    InitCleaner(CleanCols, CleanKind, CleanCells, MaxCleanRows, [StepNames -> BOOLEAN])

NextClean ==
    \/ CleanBegin
    \/ CleanStep("clean_strings")
    \/ CleanStep("remove_outliers")
    \/ CleanStep("impute_missing")
    \/ CleanStep("normalize")
    \/ CleanStep("encode_categorical")
    \/ CleanReturn
    \/ \E name \in StepNames : StepCall(name)

SpecClean == InitClean /\ [][NextClean]_vars

\* impute_missing_values under every strategy.
MaxImputeRows == 3
ImputeCells == [prix |-> { NaN, Num(0), Num(1) }, produit |-> { NA, TextA, TextB }]

InitImpute ==
    InitCleaner(CleanCols, CleanKind, ImputeCells, MaxImputeRows, { DefaultFlags })

NextImpute == \E strategy \in Strategies : ImputeCall(strategy)

SpecImpute == InitImpute /\ [][NextImpute]_vars

\* clean with its defaults, twice in a row.
TwiceCells == [prix |-> { NaN, Num(0), Num(1), Num(3) }, produit |-> { NA, TextA }]

InitTwice == InitCleaner(CleanCols, CleanKind, TwiceCells, MaxRows, { DefaultFlags })

NextTwice == CleanCall

SpecTwice == InitTwice /\ [][NextTwice]_vars

\* ------------------------------------------------------------------------
\* DataAggregator and the statistics report, as analyze uses them
\* ------------------------------------------------------------------------
\* Float arithmetic with NaN
Times(x, y) == IF IsNaN(x) \/ IsNaN(y) THEN NaN ELSE FMul(x, y)
Ratio(x, y) == IF IsNaN(x) \/ IsNaN(y) \/ y[1] = 0 THEN NaN ELSE Frac(x[1] * y[2], x[2] * y[1])

\* round(x, 2), for x >= 0: the nearest hundredth, the even one on a tie
Round2(x) ==
    IF IsNaN(x) THEN NaN
    ELSE LET q == (x[1] * 100) \div x[2]
             r == (x[1] * 100) % x[2]
             up == 2 * r > x[2] \/ (2 * r = x[2] /\ q % 2 = 1)
         IN Frac(q + (IF up THEN 1 ELSE 0), 100)

\* df['revenue'] = df['prix'] * df['quantite']
WithRevenue(t) ==
    Table(IF HasColumn(t, "revenue") THEN t.cols ELSE Append(t.cols, "revenue"),
          [c \in DOMAIN t.kind \cup { "revenue" } |-> IF c = "revenue" THEN "num" ELSE t.kind[c]],
          [i \in 1..NRows(t) |->
              [c \in DOMAIN t.kind \cup { "revenue" } |->
                  IF c = "revenue" THEN Times(t.rows[i].prix, t.rows[i].quantite)
                  ELSE t.rows[i][c]]])

\* if 'revenue' not in df.columns: df['revenue'] = ...
EnsureRevenue(t) == IF HasColumn(t, "revenue") THEN t ELSE WithRevenue(t)

\* Series.sum(), mean(), count(), nunique() over the rows idx: missing
\* values are skipped.
Observed(t, c, idx) == { i \in idx : ~IsMissing(t.kind[c], t.rows[i][c]) }
SumAt(t, c, idx) == SumOver(Column(t, c), Observed(t, c, idx))
MeanAt(t, c, idx) ==
    IF Observed(t, c, idx) = {} THEN NaN
    ELSE FScale(SumAt(t, c, idx), 1, Cardinality(Observed(t, c, idx)))
CountAt(t, c, idx) == Cardinality(Observed(t, c, idx))
NUniqueAt(t, c, idx) == Cardinality({ t.rows[i][c] : i \in Observed(t, c, idx) })
AllRows(t) == 1..NRows(t)

\* DataAggregator.calculate_kpis(df): the result and the frame it leaves
CalculateKpis(t) ==
    LET df == WithRevenue(t) IN
    [df |-> df,
     result |-> << "dict",
         [revenue_total |-> SumAt(df, "revenue", AllRows(df)),
          transaction_count |-> NRows(df),
          average_basket |-> MeanAt(df, "revenue", AllRows(df)),
          total_quantity |-> SumAt(df, "quantite", AllRows(df)),
          average_price |-> MeanAt(df, "prix", AllRows(df)),
          unique_products |-> NUniqueAt(df, "produit", AllRows(df)),
          unique_categories |-> NUniqueAt(df, "categorie", AllRows(df)),
          unique_cities |-> NUniqueAt(df, "ville", AllRows(df))] >>]

\* df.groupby(key): the observed keys and the rows of each
GroupKeys(t, key) == { t.rows[i][key] : i \in Observed(t, key, AllRows(t)) }
GroupRows(t, key, v) == { i \in AllRows(t) : t.rows[i][key] = v }

\* sort_values(ca_total, ascending=False) of the groups, which groupby
\* yields in key order: the position of a group in the result
Rank(groups, g) ==
    1 + Cardinality({ h \in groups :
            \/ FLt(g.ca_total, h.ca_total)
            \/ g.ca_total = h.ca_total /\ StrLe(h.key, g.key) /\ h.key # g.key })
Sorted(groups) ==
    [i \in 1..Cardinality(groups) |-> CHOOSE g \in groups : Rank(groups, g) = i]

\* result['ca_percentage'] = (ca_total / ca_total.sum() * 100).round(2)
Percentage(groups, g) ==
    LET idx == 1..Cardinality(groups)
        total == SumOver([i \in idx |-> Sorted(groups)[i].ca_total], idx)
    IN Round2(Times(Ratio(g.ca_total, total), Num(100)))

\* DataAggregator.calculate_sales_by_category(df).to_dict('records')
CalculateSalesByCategory(t) ==
    LET df == EnsureRevenue(t)
        groups == { [key |-> v,
                     ca_total |-> SumAt(df, "revenue", GroupRows(df, "categorie", v)),
                     quantite_totale |-> SumAt(df, "quantite", GroupRows(df, "categorie", v)),
                     prix_moyen |-> MeanAt(df, "prix", GroupRows(df, "categorie", v)),
                     nb_transactions |-> CountAt(df, "produit", GroupRows(df, "categorie", v))]
                   : v \in GroupKeys(df, "categorie") }
    IN [df |-> df,
        result |-> << "list", [i \in 1..Cardinality(groups) |->
            [categorie |-> Sorted(groups)[i].key,
             ca_total |-> Sorted(groups)[i].ca_total,
             quantite_totale |-> Sorted(groups)[i].quantite_totale,
             prix_moyen |-> Sorted(groups)[i].prix_moyen,
             nb_transactions |-> Sorted(groups)[i].nb_transactions,
             ca_percentage |-> Percentage(groups, Sorted(groups)[i])]] >>]

\* DataAggregator.calculate_sales_by_city(df).to_dict('records')
CalculateSalesByCity(t) ==
    LET df == EnsureRevenue(t)
        groups == { [key |-> v,
                     ca_total |-> SumAt(df, "revenue", GroupRows(df, "ville", v)),
                     quantite_totale |-> SumAt(df, "quantite", GroupRows(df, "ville", v)),
                     nb_produits_uniques |-> NUniqueAt(df, "produit", GroupRows(df, "ville", v))]
                   : v \in GroupKeys(df, "ville") }
    IN [df |-> df,
        result |-> << "list", [i \in 1..Cardinality(groups) |->
            [ville |-> Sorted(groups)[i].key,
             ca_total |-> Sorted(groups)[i].ca_total,
             quantite_totale |-> Sorted(groups)[i].quantite_totale,
             nb_produits_uniques |-> Sorted(groups)[i].nb_produits_uniques,
             ca_percentage |-> Percentage(groups, Sorted(groups)[i])]] >>]

\* DataAggregator.calculate_top_products(df, top_n=10).to_dict('records'),
\* for at most ten products
CalculateTopProducts(t) ==
    LET df == EnsureRevenue(t)
        groups == { [key |-> v,
                     ca_total |-> SumAt(df, "revenue", GroupRows(df, "produit", v)),
                     quantite_totale |-> SumAt(df, "quantite", GroupRows(df, "produit", v)),
                     prix_moyen |-> MeanAt(df, "prix", GroupRows(df, "produit", v))]
                   : v \in GroupKeys(df, "produit") }
    IN [df |-> df,
        result |-> << "list", [i \in 1..Cardinality(groups) |->
            [produit |-> Sorted(groups)[i].key,
             ca_total |-> Sorted(groups)[i].ca_total,
             quantite_totale |-> Sorted(groups)[i].quantite_totale,
             prix_moyen |-> Sorted(groups)[i].prix_moyen]] >>]

\* StatisticsCalculator.generate_statistics_report(df): the overview, the
\* count and mean of each numeric column, the missing-value counts.
GenerateStatisticsReport(t) ==
    LET numeric == { NumericColumns(t)[k] : k \in 1..Len(NumericColumns(t)) }
        columns == { t.cols[k] : k \in 1..Len(t.cols) }
    IN [df |-> t,
        result |-> << "dict",
          [overview |-> [n_rows |-> NRows(t), n_columns |-> Len(t.cols),
                         n_numeric |-> Len(NumericColumns(t)),
                         n_categorical |-> Len(ObjectColumns(t))],
           descriptive_stats |->
               [c \in numeric |-> [count |-> CountAt(t, c, AllRows(t)),
                                   mean |-> MeanAt(t, c, AllRows(t))]],
           missing_values |->
               [c \in { d \in columns : CountAt(t, d, AllRows(t)) < NRows(t) } |->
                   [count |-> NRows(t) - CountAt(t, c, AllRows(t))]]] >>]

\* ------------------------------------------------------------------------
\* The analyze endpoint
\* ------------------------------------------------------------------------
\* The requests, numbered in the order they arrive.
Requests == { 1, 2 }

\* The uploads, by the md5 of their bytes, and the table the loader reads.
Files == { "h1" }
TextX == <<120>>
TextY == <<121>>
TextP == <<112>>
TextQ == <<113>>
SalesCols == <<"prix", "quantite", "produit", "categorie", "ville">>
SalesKind ==
    [prix |-> "num", quantite |-> "num", produit |-> "obj", categorie |-> "obj",
     ville |-> "obj"]
Sale(p, q, a, b, c) ==
    [prix |-> p, quantite |-> q, produit |-> a, categorie |-> b, ville |-> c]
FileTable(h) ==
    Table(SalesCols, SalesKind,
          << Sale(Num(1), Num(1), TextA, TextX, TextP),
             Sale(Num(1), Num(1), TextA, TextX, TextP),
             Sale(Num(1), Num(1), TextB, TextX, TextQ),
             Sale(NaN, Num(1), TextB, TextY, TextQ),
             Sale(Num(9), Num(1), TextB, TextY, TextQ) >>)

\* The sub-analyses in the order analyze calls them, and their cache keys.
AnalysisKinds == << "kpis", "by_category", "by_city", "top_products", "stats" >>
KindSet == { AnalysisKinds[i] : i \in 1..Len(AnalysisKinds) }
AnalysisKeyOneKind(h, kind) == <<"analysis", h, "full">>

AnalysisKey(h, kind) == <<"analysis", h, kind>>
AnalysisKeys == { AnalysisKey(h, kind) : h \in Files, kind \in KindSet \cup { "full" } }

\* cache.is_available
IsAvailable == Configured /\ redis_up

\* cleaner.clean(df, remove_outliers=remove_outliers, impute_missing=True)
AnalyzeFlags(ro) ==
    [n \in StepNames |-> n \in { "clean_strings", "impute_missing" }
                          \/ (ro /\ n = "remove_outliers")]
AnalyzeClean(t, cl, ro) ==
    IF cl THEN CleanTable(t, AnalyzeFlags(ro)) ELSE [t |-> t, raised |-> FALSE]

\* One sub-analysis on the request's frame: the result and the frame left.
Compute(kind, t) ==
    CASE kind = "kpis"         -> CalculateKpis(t)
      [] kind = "by_category"  -> CalculateSalesByCategory(t)
      [] kind = "by_city"      -> CalculateSalesByCity(t)
      [] kind = "top_products" -> CalculateTopProducts(t)
      [] kind = "stats"        -> GenerateStatisticsReport(t)

\* The five sub-analyses computed one after the other on the same frame.
RECURSIVE ComputeFrom(_, _, _)
ComputeFrom(t, res, i) ==
    IF i > Len(AnalysisKinds) THEN [df |-> t, res |-> res]
    ELSE LET c == Compute(AnalysisKinds[i], t) IN
         ComputeFrom(c.df, [res EXCEPT ![AnalysisKinds[i]] = c.result], i + 1)

NoResults == [k \in KindSet |-> PyNone]
DirectRun(t) == ComputeFrom(t, NoResults, 1)

\* The response body
Response(t, res) ==
    << "dict",
       [success |-> TRUE,
        data_info |-> [rows |-> NRows(t), columns |-> Len(t.cols)],
        kpis |-> res["kpis"],
        sales_by_category |-> res["by_category"],
        sales_by_city |-> res["by_city"],
        top_products |-> res["top_products"],
        statistics |-> res["stats"],
        cached |-> FALSE] >>

NoRequest ==
    [pc |-> "idle", i |-> 0, file |-> "", clean |-> FALSE, remove_outliers |-> FALSE,
     use_cache |-> FALSE, df |-> NoTable, res |-> NoResults, missed |-> {},
     response |-> PyNone]

\* The statement after sub-analysis i of the cached branch.
Advance(q) ==
    IF q.i < Len(AnalysisKinds) THEN [q EXCEPT !.pc = "get", !.i = q.i + 1]
    ELSE [q EXCEPT !.pc = "full", !.i = 0]

AnalysisTtl == [given |-> TRUE, v |-> CACHE_TTL]

\* What loading and cleaning an upload gives under each pair of options,
\* and what the five sub-analyses computed on it in a row give: the body a
\* request without cache returns.
Cleaned ==
    [h \in Files |-> [cl \in BOOLEAN |-> [ro \in BOOLEAN |->
        AnalyzeClean(FileTable(h), cl, ro)]]]
Baseline ==
    [h \in Files |-> [cl \in BOOLEAN |-> [ro \in BOOLEAN |->
        IF Cleaned[h][cl][ro].raised THEN NoResults
        ELSE DirectRun(Cleaned[h][cl][ro].t).res]]]

\* What request r gets with use_cache=false.
Expected(r) == Baseline[reqs[r].file][reqs[r].clean][reqs[r].remove_outliers]

\* The store answers the whole run, or is down the whole run.
AnalyzeOutcomes == IF IsAvailable THEN { "ok" } ELSE { "unavail" }

\* remove_outliers is read only when clean is set (main.py:236-237): without
\* clean its two values give the same run, and one of them is drawn.
OutlierOptions(cl) == IF cl THEN BOOLEAN ELSE { FALSE }

\* analyze_data up to the sub-analyses: hash the bytes, look the whole
\* response up, load the file, clean it.
AnalyzeBegin(r) ==
    /\ reqs[r].pc = "idle"
    /\ \A p \in Requests : p < r => reqs[p].pc # "idle"
    /\ \E h \in Files, cl \in BOOLEAN, uc \in BOOLEAN, o \in AnalyzeOutcomes :
       \E ro \in OutlierOptions(cl) :
         LET g == RGet(store, AnalysisKey(h, "full"), o)
             c == Cleaned[h][cl][ro]
             q == [NoRequest EXCEPT !.file = h, !.clean = cl, !.remove_outliers = ro,
                                    !.use_cache = uc]
         IN reqs' = [reqs EXCEPT ![r] =
                IF uc /\ IsAvailable /\ g.ret # PyNone
                THEN [q EXCEPT !.pc = "done", !.response = g.ret]
                ELSE IF c.raised THEN [q EXCEPT !.pc = "failed"]
                ELSE IF uc /\ IsAvailable THEN [q EXCEPT !.pc = "get", !.i = 1, !.df = c.t]
                ELSE [q EXCEPT !.pc = "direct", !.df = c.t]]
    /\ UNCHANGED <<sets, cacheVars, cleanVars>>

\* cache_analysis_result.wrapper, first half: cached_result = cache.get(key)
SubGet(r) ==
    /\ reqs[r].pc = "get"
    /\ \E o \in AnalyzeOutcomes :
         LET q == reqs[r]
             kind == AnalysisKinds[q.i]
             g == RGet(store, AnalysisKey(q.file, kind), o)
         IN reqs' = [reqs EXCEPT ![r] =
                IF g.ret # PyNone THEN Advance([q EXCEPT !.res[kind] = g.ret])
                ELSE [q EXCEPT !.pc = "set", !.missed = q.missed \cup { kind }]]
    /\ UNCHANGED <<sets, cacheVars, cleanVars>>

\* cache_analysis_result.wrapper, second half: result = func();
\* cache.set(key, result, ttl=CACHE_TTL); return result
SubSet(r) ==
    /\ reqs[r].pc = "set"
    /\ \E o \in AnalyzeOutcomes :
         LET q == reqs[r]
             kind == AnalysisKinds[q.i]
             c == Compute(kind, q.df)
             w == RSet(store, AnalysisKey(q.file, kind), c.result, AnalysisTtl, o, now)
         IN /\ store' = w.store
            /\ reqs' = [reqs EXCEPT ![r] = Advance([q EXCEPT !.res[kind] = c.result, !.df = c.df])]
            /\ sets' = IF w.ret THEN [sets EXCEPT ![AnalysisKey(q.file, kind)] = r] ELSE sets
    /\ UNCHANGED <<enabled, client, redis_up, now, last, wr, cleanVars>>

\* The branch without cache: the five sub-analyses in a row.
Direct(r) ==
    /\ reqs[r].pc = "direct"
    /\ LET d == DirectRun(reqs[r].df) IN
       reqs' = [reqs EXCEPT ![r] = [@ EXCEPT !.pc = "full", !.res = d.res, !.df = d.df]]
    /\ UNCHANGED <<sets, cacheVars, cleanVars>>

\* Build the response, store it under the full key, return it.
Full(r) ==
    /\ reqs[r].pc = "full"
    /\ \E o \in AnalyzeOutcomes :
         LET q == reqs[r]
             body == Response(q.df, q.res)
             w == RSet(store, AnalysisKey(q.file, "full"), body, AnalysisTtl, o, now)
         IN /\ store' = IF q.use_cache /\ IsAvailable THEN w.store ELSE store
            /\ reqs' = [reqs EXCEPT ![r] = [q EXCEPT !.pc = "done", !.response = body]]
    /\ UNCHANGED <<sets, enabled, client, redis_up, now, last, wr, cleanVars>>

\* DELETE /cache/{key}: one entry is deleted between two requests.
DeleteCacheKey(k) ==
    /\ \A r \in Requests : reqs[r].pc \in { "idle", "done", "failed" }
    /\ \E r \in Requests : reqs[r].pc = "idle"
    /\ IsAvailable
    /\ Present(store, k)
    /\ store' = RDelete(store, k, "ok").store
    /\ UNCHANGED <<reqs, sets, enabled, client, redis_up, now, last, wr, cleanVars>>

\* An entry the store holds before the first request: of another upload, or
\* of a function wrapped by cached.
OtherEntry == [text |-> JsonDumps(<<"dict", "{a:1}">>), exp |-> CACHE_TTL]

InitAnalyze ==
    /\ enabled = TRUE
    /\ redis_up \in BOOLEAN
    /\ client = InitClient(enabled, redis_up)
    /\ store = [k \in AnalysisKeys \cup Keys |->
                    IF k \in AnalysisKeys THEN NoEntry ELSE OtherEntry]
    /\ now = 0
    /\ last = NoCall("init")
    /\ wr = [k \in Keys |-> NoWrite]
    /\ IdleCleaner
    /\ reqs = [r \in Requests |-> NoRequest]
    /\ sets = [k \in AnalysisKeys |-> 0]

NextAnalyze ==
    \E r \in Requests :
        \/ AnalyzeBegin(r)
        \/ SubGet(r)
        \/ SubSet(r)
        \/ Direct(r)
        \/ Full(r)
        \/ \E k \in AnalysisKeys : DeleteCacheKey(k)

SpecAnalyze == InitAnalyze /\ [][NextAnalyze]_vars

\* ------------------------------------------------------------------------
\* DataValidator
\* ------------------------------------------------------------------------
\* settings.MAX_MISSING_PERCENTAGE = 0.5
MAX_MISSING_PERCENTAGE == <<1, 2>>

\* An optional number: None, or a value (min_val, max_val; min_rows).
NoBound == [given |-> FALSE, v |-> Num(0)]
Bound(x) == [given |-> TRUE, v |-> x]
NoRows == [given |-> FALSE, v |-> 0]
Rows(n) == [given |-> TRUE, v |-> n]

RECURSIVE SumSeq(_)
SumSeq(s) == IF s = <<>> THEN 0 ELSE Head(s) + SumSeq(Tail(s))

\* A message of the report, by what it states: the check it comes from, the
\* column or columns it names, the count and the total it gives.
Message(check, column, names, count, total) ==
    [check |-> check, column |-> column, names |-> names, count |-> count, total |-> total]

\* str(df[column].dtype) of a frame as the loader reads it: object for text,
\* int64 for whole numbers without a missing cell, float64 otherwise.
Dtype(t, c) ==
    IF t.kind[c] = "obj" THEN "object"
    ELSE IF \E i \in 1..NRows(t) : t.rows[i][c][2] # 1 THEN "float64"
    ELSE "int64"

\* type_mapping.get(expected_type, [expected_type])
TypeMapping(expected) ==
    CASE expected = "int"      -> { "int64", "int32", "int16", "int8" }
      [] expected = "float"    -> { "float64", "float32", "int64", "int32" }
      [] expected = "str"      -> { "object" }
      [] expected = "string"   -> { "object" }
      [] expected = "datetime" -> { "datetime64[ns]" }
      [] expected = "bool"     -> { "bool" }
      [] expected = "category" -> { "category" }
      [] OTHER                 -> { expected }

\* _validate_required_columns: the required columns the frame lacks, in the
\* order asked; MissingColumnsError is raised when there is one.
MissingColumns(t, required) == SelectSeq(required, LAMBDA c : ~HasColumn(t, c))

\* _validate_column_types(df, column_types): one error per declared column
\* that is present with a dtype outside the accepted ones.
RECURSIVE ValidateColumnTypes(_, _)
ValidateColumnTypes(t, types) ==
    IF types = <<>> THEN <<>>
    ELSE LET column == Head(types)[1]
             expected == Head(types)[2]
         IN (IF HasColumn(t, column) /\ Dtype(t, column) \notin TypeMapping(expected)
             THEN << Message("type", column, <<expected, Dtype(t, column)>>, 0, 0) >>
             ELSE <<>>)
            \o ValidateColumnTypes(t, Tail(types))

\* df[column].isna().sum()
MissingCount(t, c) == NRows(t) - CountAt(t, c, AllRows(t))

\* missing_pct > threshold * 100, with missing_pct = missing_count / len(df) * 100
ExceedsThreshold(t, c) ==
    /\ MissingCount(t, c) > 0
    /\ FLt(FScale(MAX_MISSING_PERCENTAGE, 100, 1),
           FScale(Frac(MissingCount(t, c), NRows(t)), 100, 1))

\* _check_missing_values(df): one message per column above the threshold.
RECURSIVE MissingLoop(_, _)
MissingLoop(t, cols) ==
    IF cols = <<>> THEN <<>>
    ELSE (IF ExceedsThreshold(t, Head(cols))
          THEN << Message("missing", Head(cols), <<>>, MissingCount(t, Head(cols)), NRows(t)) >>
          ELSE <<>>)
         \o MissingLoop(t, Tail(cols))
CheckMissingValues(t) == MissingLoop(t, t.cols)

\* df.duplicated().sum(): the rows equal to an earlier row (missing cells
\* compare equal).
DuplicateCount(t) == NRows(t) - Cardinality({ t.rows[i] : i \in 1..NRows(t) })

\* One entry of value_ranges: the column, min and max.
Range(column, lo, hi) == [column |-> column, lo |-> lo, hi |-> hi]

\* valid_data = df[column].dropna(); the comparison of a text value with a
\* number raises TypeError.
RangeRaises(t, r) ==
    /\ HasColumn(t, r.column)
    /\ t.kind[r.column] = "obj"
    /\ Observed(t, r.column, AllRows(t)) # {}
    /\ (r.lo.given \/ r.hi.given)

\* invalid_count += (valid_data < min_val).sum();
\* invalid_count += (valid_data > max_val).sum()
InvalidCount(t, r) ==
    LET valid == Observed(t, r.column, AllRows(t))
        below == IF r.lo.given
                 THEN Cardinality({ i \in valid : FLt(t.rows[i][r.column], r.lo.v) }) ELSE 0
        above == IF r.hi.given
                 THEN Cardinality({ i \in valid : FLt(r.hi.v, t.rows[i][r.column]) }) ELSE 0
    IN below + above

\* _validate_value_ranges(df, value_ranges)
RECURSIVE ValidateValueRanges(_, _)
ValidateValueRanges(t, ranges) ==
    IF ranges = <<>> THEN [raised |-> FALSE, errors |-> <<>>]
    ELSE LET r == Head(ranges)
             rest == ValidateValueRanges(t, Tail(ranges))
         IN IF ~HasColumn(t, r.column) \/ Observed(t, r.column, AllRows(t)) = {} THEN rest
            ELSE IF RangeRaises(t, r) THEN [raised |-> TRUE, errors |-> <<>>]
            ELSE IF InvalidCount(t, r) > 0
            THEN [rest EXCEPT !.errors =
                     << Message("range", r.column, <<>>, InvalidCount(t, r), 0) >> \o @]
            ELSE rest

\* _calculate_metrics(df)
CalculateMetrics(t) ==
    [n_rows |-> NRows(t),
     n_columns |-> Len(t.cols),
     total_cells |-> NRows(t) * Len(t.cols),
     missing_cells |-> SumSeq([k \in 1..Len(t.cols) |-> MissingCount(t, t.cols[k])]),
     duplicate_rows |-> DuplicateCount(t)]

\* Where the findings of the quality checks go: errors.extend(...) in strict
\* mode, warnings.extend(...) otherwise.
RouteAlwaysWarns(strict) == "warnings"

Route(strict) == IF strict THEN "errors" ELSE "warnings"

\* errors.append / errors.extend: the messages of a check join those of the
\* checks before it.
ExtendFirstOnly(sofar, new) == IF sofar # <<>> THEN sofar ELSE sofar \o new

Extend(sofar, new) == sofar \o new

\* is_valid = len(errors) == 0
IsValidNoMessage(errors, warnings) == Len(errors) = 0 /\ Len(warnings) = 0

IsValid(errors, warnings) == Len(errors) = 0

\* The arguments of validate.
ValidateArgs(strict, required, types, dups, missing, ranges, min_rows) ==
    [strict_mode |-> strict, required_columns |-> required, column_types |-> types,
     check_duplicates |-> dups, check_missing |-> missing, value_ranges |-> ranges,
     min_rows |-> min_rows]

\* DataValidator(strict_mode).validate(df, ...): the six checks in order.
Validate(t, a) ==
    LET missing == IF a.required_columns # <<>> THEN MissingColumns(t, a.required_columns)
                   ELSE <<>>
        e1 == IF missing # <<>>
              THEN << Message("columns", "", missing, 0, 0) >> ELSE <<>>
        e2 == Extend(e1, IF a.column_types # <<>>
                         THEN ValidateColumnTypes(t, a.column_types) ELSE <<>>)
        found3 == IF a.check_missing THEN CheckMissingValues(t) ELSE <<>>
        e3 == IF Route(a.strict_mode) = "errors" THEN Extend(e2, found3) ELSE e2
        w3 == IF Route(a.strict_mode) = "warnings" THEN Extend(<<>>, found3) ELSE <<>>
        found4 == IF a.check_duplicates /\ DuplicateCount(t) > 0
                  THEN << Message("duplicates", "", <<>>, DuplicateCount(t), NRows(t)) >>
                  ELSE <<>>
        e4 == IF Route(a.strict_mode) = "errors" THEN Extend(e3, found4) ELSE e3
        w4 == IF Route(a.strict_mode) = "warnings" THEN Extend(w3, found4) ELSE w3
        ranges == IF a.value_ranges # <<>> THEN ValidateValueRanges(t, a.value_ranges)
                  ELSE [raised |-> FALSE, errors |-> <<>>]
        e5 == Extend(e4, ranges.errors)
        e6 == Extend(e5, IF a.min_rows.given /\ a.min_rows.v # 0 /\ NRows(t) < a.min_rows.v
                         THEN << Message("rows", "", <<>>, NRows(t), a.min_rows.v) >>
                         ELSE <<>>)
    IN [raised |-> ranges.raised,
        result |-> [is_valid |-> IsValid(e6, w4), errors |-> e6, warnings |-> w4,
                    metrics |-> CalculateMetrics(t)]]

\* validate called once on the caller's frame.
ValidateCall(a) ==
    /\ pc = "call"
    /\ LET r == Validate(input, a) IN
       /\ log' = Append(log, Entry("validate", a, input, r.result, r.raised))
       /\ pc' = IF r.raised THEN "raised" ELSE "done"
    /\ UNCHANGED <<input, orig, df_clean, cur, flags>>
    /\ UNCHANGED <<cacheVars, reqVars>>

\* The frames validated: a text column and two numeric ones.
MaxValidateRows == 2
ValidateCols == <<"produit", "prix", "quantite">>
ValidateKind == [produit |-> "obj", prix |-> "num", quantite |-> "num"]
ValidateCells ==
    [produit |-> { NA, TextB }, prix |-> { NaN, Num(0), Num(1) }, quantite |-> { Num(1) }]

\* The arguments validate is called with.
RequiredOptions ==
    { <<>>, <<"produit", "prix">>, <<"date", "produit", "prix", "source">> }
TypeOptions ==
    { <<>>,
      << <<"prix", "int">>, <<"produit", "str">> >>,
      << <<"prix", "str">>, <<"produit", "float">>, <<"date", "object">> >> }
RangeOptions ==
    { <<>>,
      << Range("prix", Bound(Num(1)), NoBound), Range("quantite", Bound(Num(2)), NoBound) >>,
      << Range("prix", Bound(Num(0)), Bound(Num(1))) >>,
      << Range("prix", Bound(Num(2)), Bound(Num(0))) >>,
      << Range("source", Bound(Num(0)), NoBound), Range("prix", NoBound, Bound(Num(0))),
         Range("produit", Bound(Num(0)), NoBound) >> }
MinRowsOptions == { NoRows, Rows(2) }
ValidateCalls ==
    { ValidateArgs(strict, required, types, dups, missing, ranges, min_rows) :
        strict \in BOOLEAN, required \in RequiredOptions, types \in TypeOptions,
        dups \in BOOLEAN, missing \in BOOLEAN, ranges \in RangeOptions,
        min_rows \in MinRowsOptions }

InitValidate ==
    InitCleaner(ValidateCols, ValidateKind, ValidateCells, MaxValidateRows, { <<>> })

NextValidate == \E a \in ValidateCalls : ValidateCall(a)

SpecValidate == InitValidate /\ [][NextValidate]_vars

\* ------------------------------------------------------------------------
\* DataAggregator called on its own
\* ------------------------------------------------------------------------
\* DataAggregator.calculate_sales_by_source(df), in the order a stable sort
\* gives
CalculateSalesBySource(t) ==
    LET df == EnsureRevenue(t)
        groups == { [key |-> v,
                     ca_total |-> SumAt(df, "revenue", GroupRows(df, "source", v)),
                     quantite_totale |-> SumAt(df, "quantite", GroupRows(df, "source", v)),
                     nb_transactions |-> CountAt(df, "produit", GroupRows(df, "source", v))]
                   : v \in GroupKeys(df, "source") }
    IN [df |-> df,
        result |-> << "list", [i \in 1..Cardinality(groups) |->
            [source |-> Sorted(groups)[i].key,
             ca_total |-> Sorted(groups)[i].ca_total,
             quantite_totale |-> Sorted(groups)[i].quantite_totale,
             nb_transactions |-> Sorted(groups)[i].nb_transactions,
             ca_percentage |-> Percentage(groups, Sorted(groups)[i])]] >>]

\* sort_values(column, ascending=False) sorts with the default kind,
\* quicksort, which is not stable: rows with equal values come out in any
\* order.  The orders of the rows of a list the sort can give:
RowOrders(n) == { p \in [1..n -> 1..n] : \A i, j \in 1..n : p[i] = p[j] => i = j }
DescendingOrders(rows, column) ==
    { p \in RowOrders(Len(rows)) :
        \A i, j \in 1..Len(rows) : i < j => FLe(rows[p[j]][column], rows[p[i]][column]) }
SortOutcomes(rows, column) ==
    { [i \in 1..Len(rows) |-> rows[p[i]]] : p \in DescendingOrders(rows, column) }

\* DataFrame.head(n): the first n rows; all but the last -n for n < 0
HeadRows(rows, n) ==
    IF n >= 0 THEN SubSeq(rows, 1, IF n < Len(rows) THEN n ELSE Len(rows))
    ELSE SubSeq(rows, 1, IF Len(rows) + n > 0 THEN Len(rows) + n ELSE 0)

\* sort_column = 'ca_total' if metric == 'revenue' else 'quantite_totale'
SortColumn(metric) == IF metric = "revenue" THEN "ca_total" ELSE "quantite_totale"

\* calculate_top_products(df, top_n, metric): the lists it can return
TopProducts(t, top_n, metric) ==
    { HeadRows(s, top_n) :
        s \in SortOutcomes(CalculateTopProducts(t).result[2], SortColumn(metric)) }

\* A date cell: the year and the month.
Month(y, m) == <<y, m>>

\* Float division: a quotient by zero is inf, -inf or nan.
Inf == <<1, 0>>
NegInf == <<-1, 0>>
Divide(x, y) ==
    IF IsNaN(x) \/ IsNaN(y) THEN NaN
    ELSE IF y[1] # 0 THEN Frac(x[1] * y[2] * (IF y[1] < 0 THEN -1 ELSE 1), x[2] * Abs(y[1]))
    ELSE IF x[1] > 0 THEN Inf
    ELSE IF x[1] < 0 THEN NegInf
    ELSE NaN

\* resample_timeseries(df, 'date', 'M', {revenue: sum, quantite: sum,
\* produit: count}): one row per month from the first to the last month of
\* the frame, the months without a row included.
MonthsOf(t) == { t.rows[i].date[2] : i \in AllRows(t) }
Lowest(S) == CHOOSE x \in S : \A y \in S : x <= y
Highest(S) == CHOOSE x \in S : \A y \in S : y <= x
RowsOfMonth(t, m) == { i \in AllRows(t) : t.rows[i].date[2] = m }
Resample(t) ==
    IF NRows(t) = 0 THEN <<>>
    ELSE [k \in 1..(Highest(MonthsOf(t)) - Lowest(MonthsOf(t)) + 1) |->
             LET m == Lowest(MonthsOf(t)) + k - 1 IN
             [date |-> Month(t.rows[1].date[1], m),
              ca_total |-> SumAt(t, "revenue", RowsOfMonth(t, m)),
              quantite_totale |-> SumAt(t, "quantite", RowsOfMonth(t, m)),
              nb_transactions |-> CountAt(t, "produit", RowsOfMonth(t, m))]]

\* Series.pct_change() * 100 at position k: NaN at the first, else
\* (s[k] / s[k-1] - 1) * 100
PctChangeNoNull(s, k) ==
    LET q == Divide(s[k], s[IF k = 1 THEN 1 ELSE k - 1])
    IN IF q[2] = 0 THEN q ELSE FScale(FSub(q, Num(1)), 100, 1)

PctChange(s, k) ==
    IF k = 1 THEN NaN
    ELSE LET q == Divide(s[k], s[k - 1])
         IN IF q[2] = 0 THEN q ELSE FScale(FSub(q, Num(1)), 100, 1)

\* Series.rolling(window=3).mean() at position k
Rolling3(s, k) ==
    IF k < 3 THEN NaN ELSE FScale(FAdd(FAdd(s[k - 2], s[k - 1]), s[k]), 1, 3)

\* DataAggregator.calculate_trend_analysis(df, 'date', period='M')
CalculateTrendAnalysis(t) ==
    LET df == EnsureRevenue(t)
        trend == Resample(df)
        ca == [k \in 1..Len(trend) |-> trend[k].ca_total]
        qt == [k \in 1..Len(trend) |-> trend[k].quantite_totale]
    IN [df |-> df,
        result |-> << "list", [k \in 1..Len(trend) |->
            [date |-> trend[k].date,
             ca_total |-> trend[k].ca_total,
             quantite_totale |-> trend[k].quantite_totale,
             nb_transactions |-> trend[k].nb_transactions,
             ca_variation_pct |-> PctChange(ca, k),
             quantite_variation_pct |-> PctChange(qt, k),
             ca_ma3 |-> Rolling3(ca, k)]] >>]

\* The aggregator methods, and what a call of one on frame t can give: the
\* frame it leaves and the value it returns.
AggregatorMethods ==
    { "calculate_kpis", "calculate_sales_by_category", "calculate_sales_by_city",
      "calculate_sales_by_source", "calculate_top_products", "calculate_trend_analysis" }
Grouped(c) ==
    { [df |-> c.df, result |-> <<"list", s>>] : s \in SortOutcomes(c.result[2], "ca_total") }
AggregatorCallOutcomes(method, t) ==
    CASE method = "calculate_kpis"              -> { CalculateKpis(t) }
      [] method = "calculate_sales_by_category" -> Grouped(CalculateSalesByCategory(t))
      [] method = "calculate_sales_by_city"     -> Grouped(CalculateSalesByCity(t))
      [] method = "calculate_sales_by_source"   -> Grouped(CalculateSalesBySource(t))
      [] method = "calculate_top_products"      ->
             { [df |-> EnsureRevenue(t), result |-> <<"list", s>>] :
                   s \in TopProducts(t, 10, "revenue") }
      [] method = "calculate_trend_analysis"    -> { CalculateTrendAnalysis(t) }

\* One aggregator method called with the caller's frame, as the calls before
\* left it.
MaxCalls == 2
AggregatorCall(method) ==
    /\ pc = "call"
    /\ Len(log) < MaxCalls
    /\ \E c \in AggregatorCallOutcomes(method, input) :
         /\ log' = Append(log, Entry(method, "", input, c.result, FALSE))
         /\ input' = c.df
    /\ UNCHANGED <<orig, df_clean, cur, flags, pc>>
    /\ UNCHANGED <<cacheVars, reqVars>>

\* calculate_top_products(df, top_n, metric) called once.
TopProductsCall(top_n, metric) ==
    /\ pc = "call"
    /\ \E s \in TopProducts(input, top_n, metric) :
         /\ log' = Append(log, Entry("calculate_top_products",
                                     [top_n |-> top_n, metric |-> metric], input,
                                     <<"list", s>>, FALSE))
         /\ input' = EnsureRevenue(input)
    /\ pc' = "done"
    /\ UNCHANGED <<orig, df_clean, cur, flags>>
    /\ UNCHANGED <<cacheVars, reqVars>>

\* calculate_trend_analysis(df, 'date', 'M') called once.
TrendCall ==
    /\ pc = "call"
    /\ LET c == CalculateTrendAnalysis(input) IN
       /\ log' = Append(log, Entry("calculate_trend_analysis", "M", input, c.result, FALSE))
       /\ input' = c.df
    /\ pc' = "done"
    /\ UNCHANGED <<orig, df_clean, cur, flags>>
    /\ UNCHANGED <<cacheVars, reqVars>>

\* Sales frames: date, produit, categorie, prix, quantite, ville, source.
SalesFrameCols == <<"date", "produit", "categorie", "prix", "quantite", "ville", "source">>
SalesFrameKind ==
    [date |-> "obj", produit |-> "obj", categorie |-> "obj", prix |-> "num",
     quantite |-> "num", ville |-> "obj", source |-> "obj"]

\* Any two aggregator calls in a row on a frame with missing prices and
\* missing categories.
MaxSalesRows == 2
AggregateCells ==
    [date |-> { Month(2025, 1) }, produit |-> { TextB }, categorie |-> { NA, TextX, TextY },
     prix |-> { NaN, Num(10), Num(20) }, quantite |-> { Num(1), Num(2) },
     ville |-> { TextP }, source |-> { TextQ }]
InitAggregate ==
    InitCleaner(SalesFrameCols, SalesFrameKind, AggregateCells, MaxSalesRows, { <<>> })
NextAggregate == \E method \in AggregatorMethods : AggregatorCall(method)
SpecAggregate == InitAggregate /\ [][NextAggregate]_vars

\* Top products over up to three products with equal and unequal totals.
MaxTopRows == 3
TopCells ==
    [date |-> { Month(2025, 1) }, produit |-> { TextA, TextB, TextX }, categorie |-> { TextX },
     prix |-> { Num(1), Num(2) }, quantite |-> { Num(1) },
     ville |-> { TextP }, source |-> { TextQ }]
TopNs == { 1, 2, 10 }
Metrics == { "revenue", "quantite" }
InitTop == InitCleaner(SalesFrameCols, SalesFrameKind, TopCells, MaxTopRows, { <<>> })
NextTop == \E top_n \in TopNs, metric \in Metrics : TopProductsCall(top_n, metric)
SpecTop == InitTop /\ [][NextTop]_vars

\* Monthly trend over up to three months.
MaxTrendRows == 3
TrendCells ==
    [date |-> { Month(2025, 1), Month(2025, 2), Month(2025, 3) }, produit |-> { TextB },
     categorie |-> { TextX }, prix |-> { Num(0), Num(90), Num(100), Num(150) },
     quantite |-> { Num(1) }, ville |-> { TextP }, source |-> { TextQ }]
InitTrend == InitCleaner(SalesFrameCols, SalesFrameKind, TrendCells, MaxTrendRows, { <<>> })
NextTrend == TrendCall
SpecTrend == InitTrend /\ [][NextTrend]_vars

\* ------------------------------------------------------------------------
\* StatisticsCalculator.find_strong_correlations
\* ------------------------------------------------------------------------
\* A Pearson coefficient r, kept exact: nan, or its sign and its square.
NoCorrelation == [nan |-> TRUE, sign |-> 0, sq |-> Num(0)]
Sign(x) == IF x[1] > 0 THEN 1 ELSE IF x[1] < 0 THEN -1 ELSE 0

\* df[columns].corr(method='pearson') at (a, b): over the rows where both
\* cells are present; nan when fewer than two such rows or a column is
\* constant over them.
Corr(t, a, b) ==
    LET idx == Observed(t, a, AllRows(t)) \cap Observed(t, b, AllRows(t))
        n == Cardinality(idx)
        xs == Column(t, a)
        ys == Column(t, b)
        sx == SumOver(xs, idx)
        sy == SumOver(ys, idx)
        sxy == SumOver([i \in AllRows(t) |-> Times(xs[i], ys[i])], idx)
        sxx == SumOver([i \in AllRows(t) |-> Times(xs[i], xs[i])], idx)
        syy == SumOver([i \in AllRows(t) |-> Times(ys[i], ys[i])], idx)
        cov == FSub(FScale(sxy, n, 1), FMul(sx, sy))
        vx == FSub(FScale(sxx, n, 1), FMul(sx, sx))
        vy == FSub(FScale(syy, n, 1), FMul(sy, sy))
    IN IF n < 2 \/ vx[1] = 0 \/ vy[1] = 0 THEN NoCorrelation
       ELSE [nan |-> FALSE, sign |-> Sign(cov),
             sq |-> Frac(FMul(cov, cov)[1] * FMul(vx, vy)[2], FMul(cov, cov)[2] * FMul(vx, vy)[1])]

\* abs(corr_value) >= threshold; a comparison with nan is false
AbsAtLeast(r, threshold) ==
    /\ ~r.nan
    /\ (threshold[1] <= 0 \/ FLe(FMul(threshold, threshold), r.sq))

\* for i in range(n): for j in range(i + 1, n)
UpperTriangleWithDiagonal(n) == { p \in (1..n) \X (1..n) : p[1] <= p[2] }

UpperTriangle(n) == { p \in (1..n) \X (1..n) : p[1] < p[2] }

\* The two loops: the strong pairs in the order visited.
RECURSIVE StrongFrom(_, _, _, _, _)
StrongFrom(t, cols, threshold, i, j) ==
    IF i > Len(cols) THEN <<>>
    ELSE IF j > Len(cols) THEN StrongFrom(t, cols, threshold, i + 1, 1)
    ELSE (IF <<i, j>> \in UpperTriangle(Len(cols))
             /\ AbsAtLeast(Corr(t, cols[i], cols[j]), threshold)
          THEN << <<cols[i], cols[j], Corr(t, cols[i], cols[j])>> >>
          ELSE <<>>)
         \o StrongFrom(t, cols, threshold, i, j + 1)

\* strong_corr.sort(key=lambda x: abs(x[2]), reverse=True): list.sort is
\* stable, equal keys keep their order.
RECURSIVE InsertByAbs(_, _)
InsertByAbs(x, s) ==
    IF s = <<>> THEN <<x>>
    ELSE IF FLt(x[3].sq, Head(s)[3].sq) THEN <<Head(s)>> \o InsertByAbs(x, Tail(s))
    ELSE <<x>> \o s
RECURSIVE SortByAbs(_)
SortByAbs(s) == IF s = <<>> THEN <<>> ELSE InsertByAbs(Head(s), SortByAbs(Tail(s)))

\* find_strong_correlations(df, threshold, method='pearson')
FindStrongCorrelations(t, threshold) ==
    SortByAbs(StrongFrom(t, NumericColumns(t), threshold, 1, 1))

\* calculate_correlation_matrix(df, method='pearson', columns=None): the
\* coefficient of every pair of numeric columns, the diagonal included. No
\* branch of it raises.
CalculateCorrelationMatrix(t) ==
    [p \in Elems(NumericColumns(t)) \X Elems(NumericColumns(t)) |-> Corr(t, p[1], p[2])]

\* calculate_correlation_matrix called once.
CorrelationMatrixCall ==
    /\ pc = "call"
    /\ log' = Append(log, Entry("calculate_correlation_matrix", "pearson", input,
                                CalculateCorrelationMatrix(input), FALSE))
    /\ pc' = "done"
    /\ UNCHANGED <<input, orig, df_clean, cur, flags>>
    /\ UNCHANGED <<cacheVars, reqVars>>

\* find_strong_correlations called once.
CorrelationCall(threshold) ==
    /\ pc = "call"
    /\ log' = Append(log, Entry("find_strong_correlations", threshold, input,
                                FindStrongCorrelations(input, threshold), FALSE))
    /\ pc' = "done"
    /\ UNCHANGED <<input, orig, df_clean, cur, flags>>
    /\ UNCHANGED <<cacheVars, reqVars>>

\* Frames with three numeric columns and a text column.
MaxCorrRows == 3
CorrCols == <<"prix", "produit", "quantite", "stock">>
CorrKind == [prix |-> "num", produit |-> "obj", quantite |-> "num", stock |-> "num"]
CorrCells ==
    [prix |-> { Num(0), Num(1) }, produit |-> { TextB }, quantite |-> { Num(0), Num(1) },
     stock |-> { NaN, Num(0), Num(1) }]
Thresholds == { Frac(7, 10), Num(0) }
InitCorr == InitCleaner(CorrCols, CorrKind, CorrCells, MaxCorrRows, { <<>> })
NextCorr ==
    \/ \E threshold \in Thresholds : CorrelationCall(threshold)
    \/ CorrelationMatrixCall
SpecCorr == InitCorr /\ [][NextCorr]_vars

\* ------------------------------------------------------------------------
\* Outliers by method: StatisticsCalculator.outlier_detection and the
\* DataCleaner's removal of one column
\* ------------------------------------------------------------------------
\* settings.ZSCORE_THRESHOLD = 3.0, and the literal 3 of outlier_detection
ZSCORE_THRESHOLD == 3

\* Series.std() squared: the variance with ddof=1 over the observed values,
\* NaN when fewer than two are observed.
SampleVariance(s) ==
    LET idx == Present1("num", s)
        mu == Mean(s)
        sq == [i \in 1..Len(s) |-> IF i \in idx THEN FMul(FSub(s[i], mu), FSub(s[i], mu))
                                   ELSE NaN]
    IN IF Cardinality(idx) < 2 THEN NaN
       ELSE FScale(SumOver(sq, idx), 1, Cardinality(idx) - 1)

\* np.abs((x - mean) / std) compared with the threshold: "nan" when x or
\* the std is missing or the quotient is 0/0 (a constant column), else
\* whether it is below, at or above the threshold. Squares are compared, the
\* root is never taken.
ZScoreSide(x, s) ==
    LET var == SampleVariance(s)
        d == FSub(x, Mean(s))
        limit == FScale(var, ZSCORE_THRESHOLD * ZSCORE_THRESHOLD, 1)
    IN IF IsNaN(x) \/ IsNaN(var) THEN "nan"
       ELSE IF var = Num(0) THEN (IF d = Num(0) THEN "nan" ELSE "above")
       ELSE IF FMul(d, d) = limit THEN "at"
       ELSE IF FLt(FMul(d, d), limit) THEN "below"
       ELSE "above"

\* DataCleaner._remove_outliers_zscore: mask = z_scores < ZSCORE_THRESHOLD
KeptZscore(t, c) == { i \in 1..NRows(t) : ZScoreSide(t.rows[i][c], Column(t, c)) = "below" }

\* DataCleaner._remove_outliers_iqr: the mask of RemoveOutliersIqr
KeptIqr(t, c) ==
    LET bounds == Bounds(Column(t, c)) IN
    { i \in 1..NRows(t) : Within(t.rows[i][c], bounds[1], bounds[2]) }

\* The frame df[mask] with the index labels it keeps.
RemoveOutliersColumn(t, c, method) ==
    LET kept == IF method = "iqr" THEN KeptIqr(t, c) ELSE KeptZscore(t, c) IN
    [t |-> Filter(t, kept), index |-> kept]

\* outlier_detection, method 'iqr': (data < lower) | (data > upper), with
\* lower = Q1 - 1.5 * IQR and upper = Q3 + 1.5 * IQR; a comparison with NaN
\* is False.
FlaggedIqr(t, c) ==
    LET bounds == Bounds(Column(t, c)) IN
    { i \in 1..NRows(t) :
        /\ ~IsNaN(t.rows[i][c])
        /\ ~IsNaN(bounds[1])
        /\ (FLt(t.rows[i][c], bounds[1]) \/ FLt(bounds[2], t.rows[i][c])) }

\* outlier_detection, method 'zscore': mask = z_scores > 3
FlaggedZscore(t, c) ==
    { i \in 1..NRows(t) : ZScoreSide(t.rows[i][c], Column(t, c)) = "above" }

\* outlier_detection(df, column, method): the mask and its count
OutlierDetection(t, c, method) ==
    LET mask == IF method = "iqr" THEN FlaggedIqr(t, c) ELSE FlaggedZscore(t, c) IN
    [mask |-> mask, count |-> Cardinality(mask)]

OutlierMethods == { "iqr", "zscore" }

\* DataCleaner.remove_outliers(df, columns, method): the loop over the
\* columns with the method given, then the log line that divides by the
\* number of rows of the input.
RECURSIVE OutlierLoopBy(_, _, _)
OutlierLoopBy(t, columns, method) ==
    IF columns = <<>> THEN t
    ELSE IF ~HasColumn(t, Head(columns)) THEN OutlierLoopBy(t, Tail(columns), method)
    ELSE OutlierLoopBy(RemoveOutliersColumn(t, Head(columns), method).t, Tail(columns), method)

RemoveOutliersBy(t, columns, method) ==
    IF NRows(t) = 0
    THEN [t |-> t, raised |-> TRUE]
    ELSE [t |-> OutlierLoopBy(t, columns, method), raised |-> FALSE]

\* remove_outliers(df, method=method) called on its own with the caller's
\* frame: every numeric column is treated.
RemoveOutliersMethodCall(method) ==
    /\ pc = "call"
    /\ LET r == RemoveOutliersBy(input, NumericColumns(input), method) IN
       /\ log' = Append(log, Entry("remove_outliers", method, input, r.t, r.raised))
       /\ df_clean' = r.t
       /\ cur' = "own"
       /\ pc' = IF r.raised THEN "step_raised" ELSE "step_done"
    /\ UNCHANGED <<input, orig, flags>>
    /\ UNCHANGED <<cacheVars, reqVars>>

\* clean with its defaults (outlier removal and imputation both enabled),
\* and remove_outliers under each method, on frames of two numeric columns
\* and a text column.
MaxCompleteRows == 3
CompleteCols == <<"prix", "produit", "quantite">>
CompleteKind == [prix |-> "num", produit |-> "obj", quantite |-> "num"]
CompleteCells ==
    [prix |-> { NaN, Num(0), Num(1) }, produit |-> { NA, TextA },
     quantite |-> { NaN, Num(1), Num(2) }]
InitComplete ==
    InitCleaner(CompleteCols, CompleteKind, CompleteCells, MaxCompleteRows, { DefaultFlags })
NextComplete ==
    \/ CleanBegin
    \/ CleanStep("clean_strings")
    \/ CleanStep("remove_outliers")
    \/ CleanStep("impute_missing")
    \/ CleanStep("normalize")
    \/ CleanStep("encode_categorical")
    \/ CleanReturn
    \/ \E method \in OutlierMethods : RemoveOutliersMethodCall(method)
SpecComplete == InitComplete /\ [][NextComplete]_vars

\* outlier_detection called with the caller's frame.
OutlierDetectionCall(c, method) ==
    /\ pc = "call"
    /\ \A k \in 1..Len(log) :
           ~(log[k].name = "outlier_detection" /\ log[k].param = <<c, method>>)
    /\ log' = Append(log, Entry("outlier_detection", <<c, method>>, input,
                                OutlierDetection(input, c, method), FALSE))
    /\ UNCHANGED <<input, orig, df_clean, cur, flags, pc>>
    /\ UNCHANGED <<cacheVars, reqVars>>

\* The cleaner's removal of one column called with the caller's frame.
RemoveColumnCall(c, method) ==
    /\ pc = "call"
    /\ \A k \in 1..Len(log) :
           ~(log[k].name = "_remove_outliers" /\ log[k].param = <<c, method>>)
    /\ LET r == RemoveOutliersColumn(input, c, method) IN
       /\ log' = Append(log, Entry("_remove_outliers", <<c, method>>, input, r, FALSE))
       /\ df_clean' = r.t
       /\ cur' = "own"
    /\ UNCHANGED <<input, orig, flags, pc>>
    /\ UNCHANGED <<cacheVars, reqVars>>

\* Frames of one numeric column: a run of equal values, then a few rows of
\* any value, so that a column long enough for a z-score above 3 is among
\* them.
MaxRun == 10
MaxDetectRows == 2
DetectCols == <<"prix">>
DetectKind == [prix |-> "num"]
DetectCells == [prix |-> { NaN, Num(0), Num(1) }]
InitDetect ==
    /\ IdleCache
    /\ IdleRequests
    /\ \E run \in 0..MaxRun, n \in 0..MaxDetectRows :
         \E r \in [1..n -> RowsOver(DetectKind, DetectCells)] :
           input = Table(DetectCols, DetectKind, [i \in 1..run |-> [prix |-> Num(0)]] \o r)
    /\ orig = input
    /\ df_clean = NoTable
    /\ cur = "caller"
    /\ flags = DefaultFlags
    /\ pc = "call"
    /\ log = <<>>
NextDetect ==
    \E method \in OutlierMethods :
        \/ OutlierDetectionCall("prix", method)
        \/ RemoveColumnCall("prix", method)
SpecDetect == InitDetect /\ [][NextDetect]_vars

\* ------------------------------------------------------------------------
\* generate_cache_key and the keys of a function wrapped by cached
\* ------------------------------------------------------------------------
\* Python values given as arguments: <<"int", digits>> and <<"str", character
\* codes>>.  str(v): the decimal digits of an int, a str as it is.
Str(v) == IF v[1] = "int" THEN [i \in 1..Len(v[2]) |-> 48 + v[2][i]] ELSE v[2]

\* sorted(kwargs.items()): the (name, value) pairs in the order of the names
RECURSIVE InsertItem(_, _)
InsertItem(x, s) ==
    IF s = <<>> THEN <<x>>
    ELSE IF StrLe(x[1], Head(s)[1]) THEN <<x>> \o s
    ELSE <<Head(s)>> \o InsertItem(x, Tail(s))
RECURSIVE SortedItems(_)
SortedItems(kwargs) ==
    IF kwargs = <<>> THEN <<>> ELSE InsertItem(Head(kwargs), SortedItems(Tail(kwargs)))

\* key_parts: str(arg) for each positional argument, then f"{k}={v}" for
\* each keyword argument
KeyParts(args, kwargs) ==
    [i \in 1..Len(args) |-> Str(args[i])]
    \o [i \in 1..Len(kwargs) |->
           SortedItems(kwargs)[i][1] \o <<61>> \o Str(SortedItems(kwargs)[i][2])]

\* ":".join(key_parts)
RECURSIVE Join(_)
Join(parts) ==
    IF parts = <<>> THEN <<>>
    ELSE IF Len(parts) = 1 THEN parts[1]
    ELSE parts[1] \o <<58>> \o Join(Tail(parts))

\* hashlib.md5(...).hexdigest(): different strings are given different
\* digests.
Md5(text) == <<"md5", text>>

\* generate_cache_key(*args, **kwargs)
GenerateCacheKey(args, kwargs) == <<"cache", Md5(Join(KeyParts(args, kwargs)))>>

\* cache_key = f"{key_prefix}:{func.__name__}:" + generate_cache_key(...)
WrapperKey(a) == <<"stats", "f", GenerateCacheKey(a.args, a.kwargs)>>

\* The argument lists the wrapped function f is called with, and what f
\* returns for each.
PyInt(n) == <<"int", <<n>> >>
PyStr(text) == <<"str", text>>
ArgList(args, kwargs, returns) == [args |-> args, kwargs |-> kwargs, returns |-> returns]
ArgLists ==
    { ArgList(<<PyInt(1)>>, <<>>, "f(1)"),
      ArgList(<<PyStr(<<49>>)>>, <<>>, "f('1')"),
      ArgList(<<PyStr(<<97>>), PyStr(<<98>>)>>, <<>>, "f('a','b')"),
      ArgList(<<PyStr(<<97, 58, 98>>)>>, <<>>, "f('a:b')"),
      ArgList(<<PyStr(<<98>>), PyStr(<<97>>)>>, <<>>, "f('b','a')"),
      ArgList(<<>>, << <<(<<120>>), PyInt(1)>>, <<(<<121>>), PyInt(2)>> >>, "f(x=1,y=2)"),
      ArgList(<<>>, << <<(<<121>>), PyInt(2)>>, <<(<<120>>), PyInt(1)>> >>, "f(x=1,y=2)"),
      ArgList(<<>>, << <<(<<120>>), PyInt(2)>>, <<(<<121>>), PyInt(1)>> >>, "f(x=2,y=1)"),
      ArgList(<<PyStr(<<120, 61, 49>>)>>, <<>>, "f('x=1')"),
      ArgList(<<>>, << <<(<<120>>), PyInt(1)>> >>, "f(x=1)") }
WrapperKeys == { WrapperKey(a) : a \in ArgLists }

\* The wrapped function called with an argument list.
MaxKeyCalls == 2
CachedFunctionCall(a) ==
    /\ Len(log) < MaxKeyCalls
    /\ \E o0 \in PossibleOutcomes \ {"error"}, o1, o2 \in PossibleOutcomes :
         LET v == <<"dict", a.returns>>
             r == CachedWrapper(store, WrapperKey(a), v, NoTtl, o0, o1, o2, now)
         IN /\ last' = Call("cached", WrapperKey(a), r.out, r.setout, r.ret, FALSE, 0,
                            r.raised, v, r.computed)
            /\ store' = r.store
            /\ log' = Append(log, Entry("cached", a, WrapperKey(a),
                                        [ret |-> r.ret, computed |-> r.computed,
                                         stored |-> r.setout = "ok"], r.raised))
    /\ UNCHANGED <<enabled, client, redis_up, now, wr>>
    /\ UNCHANGED <<input, orig, df_clean, cur, flags, pc, reqVars>>

\* wrapper.invalidate_cache(*args, **kwargs): cache.delete(cache_key)
InvalidateCacheCall(a) ==
    /\ Len(log) < MaxKeyCalls
    /\ \E o \in PossibleOutcomes :
         LET r == RDelete(store, WrapperKey(a), o) IN
         /\ last' = Call("invalidate_cache", WrapperKey(a), "ok", o, PyNone, r.ret, 0,
                         r.raised, PyNone, FALSE)
         /\ store' = r.store
         /\ log' = Append(log, Entry("invalidate_cache", a, WrapperKey(a),
                                     [ret |-> PyNone, computed |-> FALSE, stored |-> FALSE],
                                     r.raised))
    /\ UNCHANGED <<enabled, client, redis_up, now, wr>>
    /\ UNCHANGED <<input, orig, df_clean, cur, flags, pc, reqVars>>

InitKeys ==
    /\ enabled \in BOOLEAN
    /\ redis_up \in BOOLEAN
    /\ client = InitClient(enabled, redis_up)
    /\ store = [k \in WrapperKeys |-> NoEntry]
    /\ now = 0
    /\ last = NoCall("init")
    /\ wr = [k \in Keys |-> NoWrite]
    /\ IdleCleaner
    /\ IdleRequests
NextKeys ==
    \E a \in ArgLists :
        \/ CachedFunctionCall(a)
        \/ InvalidateCacheCall(a)
SpecKeys == InitKeys /\ [][NextKeys]_vars

\* ------------------------------------------------------------------------
\* RedisCache as a singleton
\* ------------------------------------------------------------------------
\* RedisCache.__new__: the instance the class holds is returned; it is made
\* when the class holds none (client "unset": no instance yet). Instances
\* are numbered in the order they are made.
NewAlwaysCreates(c, made) == made + 1

New(c, made) == IF c = "unset" THEN made + 1 ELSE made

\* RedisCache.__init__: nothing is done on an instance already initialised;
\* else the connection is attempted if the cache is enabled.
RedisCacheInitAgain(c, en, up) == [client |-> InitClient(en, up), attempted |-> en]

RedisCacheInit(c, en, up) ==
    IF c # "unset" THEN [client |-> c, attempted |-> FALSE]
    ELSE [client |-> InitClient(en, up), attempted |-> en]

\* RedisCache(): __new__, then __init__ on what it returned.
MaxConstructions == 3
Construct ==
    /\ Len(log) < MaxConstructions
    /\ LET made == IF client = "unset" THEN 0 ELSE 1
           r == RedisCacheInit(client, enabled, redis_up)
       IN /\ client' = r.client
          /\ log' = Append(log, Entry("RedisCache", "", redis_up,
                                      [instance |-> New(client, made),
                                       attempted |-> r.attempted,
                                       client |-> r.client], FALSE))
    /\ last' = NoCall("construct")
    /\ UNCHANGED <<enabled, redis_up, store, now, wr>>
    /\ UNCHANGED <<input, orig, df_clean, cur, flags, pc, reqVars>>

\* A method of the module-level instance, which exists once the module is
\* imported.
Constructed == client # "unset"

InitSingleton ==
    /\ enabled \in BOOLEAN
    /\ redis_up \in BOOLEAN
    /\ client = "unset"
    /\ store = EmptyStore
    /\ now = 0
    /\ last = NoCall("init")
    /\ wr = [k \in Keys |-> NoWrite]
    /\ IdleCleaner
    /\ IdleRequests
NextSingleton ==
    \/ Construct
    \/ (Constructed /\ \E k \in WrapKeys : Get(k))
    \/ (Constructed /\ \E k \in WrapKeys : Set(k, <<"dict", "{a:1}">>, NoTtl))
    \/ (Constructed /\ \E k \in WrapKeys : CachedCall(k, <<"dict", "{a:1}">>, NoTtl))
    \/ RedisFlip
SpecSingleton == InitSingleton /\ [][NextSingleton]_vars

\* ------------------------------------------------------------------------
\* DataAnalysisPipeline.run
\* ------------------------------------------------------------------------
\* The pipeline keeps self.df in input and self.df_clean in df_clean; orig is
\* the file run is given, flags the arguments of run, pc the statement run
\* stands at, and log the steps run has called so far.

\* settings.MIN_DATA_ROWS
MIN_DATA_ROWS == 1

\* The arguments validate_sales_data hands to validate; the validator of the
\* pipeline is built with strict_mode=False.
SalesDataArgs ==
    ValidateArgs(FALSE,
                 <<"date", "produit", "categorie", "prix", "quantite", "ville", "source">>,
                 << <<"date", "object">>, <<"produit", "str">>, <<"categorie", "str">>,
                    <<"prix", "float">>, <<"quantite", "int">>, <<"ville", "str">>,
                    <<"source", "str">> >>,
                 TRUE, TRUE,
                 << Range("prix", Bound(Num(0)), NoBound),
                    Range("quantite", Bound(Num(1)), NoBound) >>,
                 Rows(MIN_DATA_ROWS))

\* pd.to_datetime(text, errors='coerce') on the texts of the model: a text
\* YYYY-MM-DD naming a day of the calendar is that day, any other text and a
\* missing cell are NaT.
NaT == NA
IsDigit(c) == c \in 48..57
RECURSIVE Digits(_)
Digits(s) == IF s = <<>> THEN 0 ELSE 10 * Digits(SubSeq(s, 1, Len(s) - 1)) + (s[Len(s)] - 48)
DaysIn(y, m) ==
    IF m = 2
    THEN IF (y % 4 = 0 /\ y % 100 # 0) \/ y % 400 = 0 THEN 29 ELSE 28
    ELSE IF m \in { 4, 6, 9, 11 } THEN 30 ELSE 31
ToDatetime(x) ==
    IF /\ Len(x) = 10
       /\ x[5] = 45
       /\ x[8] = 45
       /\ \A i \in { 1, 2, 3, 4, 6, 7, 9, 10 } : IsDigit(x[i])
    THEN LET y == Digits(SubSeq(x, 1, 4))
             m == Digits(SubSeq(x, 6, 7))
             d == Digits(SubSeq(x, 9, 10))
         IN IF m \in 1..12 /\ d \in 1..DaysIn(y, m) THEN <<y, m, d>> ELSE NaT
    ELSE NaT

\* DataCleaner.convert_dates(df, ['date']): a copy of df whose date column,
\* if there is one, holds timestamps.
ConvertDates(t) ==
    IF ~HasColumn(t, "date") THEN t
    ELSE Table(t.cols,
               [c \in DOMAIN t.kind |-> IF c = "date" THEN "datetime" ELSE t.kind[c]],
               [i \in 1..NRows(t) |->
                   [c \in DOMAIN t.kind |->
                       IF c = "date" THEN ToDatetime(t.rows[i][c]) ELSE t.rows[i][c]]])

\* The flags clean_data hands to clean.
PipelineFlags == [n \in StepNames |-> n \in { "clean_strings", "impute_missing" }]

\* The arguments of run.
RunArgs ==
    [skip_cleaning : BOOLEAN, skip_validation : BOOLEAN, generate_report : BOOLEAN,
     export_excel : BOOLEAN]

\* The steps of run after the cleaning, in the order run calls them; the
\* last two are called if their argument asks for them.
LaterSteps ==
    << "calculate_kpis", "perform_aggregations", "generate_statistics",
       "generate_visualizations", "generate_report", "export_results_excel" >>
Requested(step) ==
    CASE step = "generate_report"      -> flags.generate_report
      [] step = "export_results_excel" -> flags.export_excel
      [] OTHER                         -> TRUE
StepAfter(step) ==
    LET i == CHOOSE j \in 1..Len(LaterSteps) : LaterSteps[j] = step IN
    IF i = Len(LaterSteps) THEN "return_true" ELSE LaterSteps[i + 1]

\* A call run makes into the file system or into the classes that compute
\* and render the results either returns or raises.
StepOutcomes == { "completed", "raised" }

\* if not self.validate_data(): logger.warning(...), and on to the cleaning
AfterValidationStops(valid) == IF valid THEN "clean_data" ELSE "return_false"

AfterValidation(valid) == "clean_data"

\* output_path.mkdir(parents=True, exist_ok=True)
MakeOutputDir ==
    /\ pc = "mkdir"
    /\ \E o \in StepOutcomes :
         /\ log' = Append(log, Entry("mkdir", "", input, o, o = "raised"))
         /\ pc' = IF o = "raised" THEN "return_false" ELSE "load_data"
    /\ UNCHANGED <<input, orig, df_clean, cur, flags>>
    /\ UNCHANGED <<cacheVars, reqVars>>

\* if not self.load_data(file_path): return False.  load_data catches what
\* the loader raises and answers False.
LoadData ==
    /\ pc = "load_data"
    /\ input' = IF orig.readable THEN orig.table ELSE input
    /\ log' = Append(log, Entry("load_data", "", input, orig.readable, FALSE))
    /\ pc' = IF orig.readable THEN "validate_data" ELSE "return_false"
    /\ UNCHANGED <<orig, df_clean, cur, flags>>
    /\ UNCHANGED <<cacheVars, reqVars>>

\* if not skip_validation: self.validate_data()
ValidateData ==
    /\ pc = "validate_data"
    /\ IF flags.skip_validation
       THEN /\ pc' = "clean_data"
            /\ UNCHANGED log
       ELSE LET r == Validate(input, SalesDataArgs) IN
            /\ log' = Append(log, Entry("validate_data", "", input,
                                        [is_valid |-> ~r.raised /\ r.result.is_valid,
                                         df |-> input],
                                        r.raised))
            /\ pc' = IF r.raised THEN "return_false"
                     ELSE AfterValidation(r.result.is_valid)
    /\ UNCHANGED <<input, orig, df_clean, cur, flags>>
    /\ UNCHANGED <<cacheVars, reqVars>>

\* if not skip_cleaning: self.clean_data() else: self.df_clean = self.df.copy()
CleanData ==
    /\ pc = "clean_data"
    /\ IF flags.skip_cleaning
       THEN /\ df_clean' = input
            /\ cur' = "own"
            /\ pc' = LaterSteps[1]
            /\ UNCHANGED <<input, log>>
       ELSE LET converted == ConvertDates(input)
                r == CleanTable(converted, PipelineFlags)
            IN /\ input' = converted
               /\ df_clean' = IF r.raised THEN df_clean ELSE r.t
               /\ cur' = IF r.raised THEN cur ELSE "own"
               /\ log' = Append(log, Entry("clean_data", "", input, r.t, r.raised))
               /\ pc' = IF r.raised THEN "return_false" ELSE LaterSteps[1]
    /\ UNCHANGED <<orig, flags>>
    /\ UNCHANGED <<cacheVars, reqVars>>

\* The steps 4 to 9 of run, each called on self.df_clean.
PipelineStep(step) ==
    /\ pc = step
    /\ IF ~Requested(step)
       THEN /\ pc' = StepAfter(step)
            /\ UNCHANGED log
       ELSE \E o \in StepOutcomes :
              /\ log' = Append(log, Entry(step, "", df_clean, o, o = "raised"))
              /\ pc' = IF o = "raised" THEN "return_false" ELSE StepAfter(step)
    /\ UNCHANGED <<input, orig, df_clean, cur, flags>>
    /\ UNCHANGED <<cacheVars, reqVars>>

\* return True at the end of the try block; return False after a failed
\* loading and in the except clause.
RunReturn ==
    /\ pc \in { "return_true", "return_false" }
    /\ log' = Append(log, Entry("run", flags, orig, pc = "return_true", FALSE))
    /\ pc' = "returned"
    /\ UNCHANGED <<input, orig, df_clean, cur, flags>>
    /\ UNCHANGED <<cacheVars, reqVars>>

\* The files run is given: unreadable ones, and sales files of at most two
\* rows whose price column holds numbers or holds text.
MaxPipelineRows == 2
DateText == <<50, 48, 50, 53, 45, 48, 49, 45, 48, 50>>
PriceKinds == { "num", "obj" }
PipelineKind(price) == [SalesFrameKind EXCEPT !.prix = price]
PipelineCells(price) ==
    [date |-> { DateText, TextB }, produit |-> { TextB }, categorie |-> { TextX },
     prix |-> IF price = "num" THEN { NaN, Num(-1), Num(10) } ELSE { TextP },
     quantite |-> { Num(2) }, ville |-> { TextP }, source |-> { TextQ }]
PipelineFiles ==
    { [readable |-> FALSE, table |-> NoTable] } \cup
    UNION { { [readable |-> TRUE, table |-> Table(SalesFrameCols, PipelineKind(price), r)] :
                r \in UNION { [1..n -> RowsOver(PipelineKind(price), PipelineCells(price))] :
                              n \in 0..MaxPipelineRows } } :
            price \in PriceKinds }

InitPipeline ==
    /\ IdleCache
    /\ IdleRequests
    /\ orig \in PipelineFiles
    /\ input = NoTable
    /\ df_clean = NoTable
    /\ cur = "caller"
    /\ flags \in RunArgs
    /\ pc = "mkdir"
    /\ log = <<>>

NextPipeline ==
    \/ MakeOutputDir
    \/ LoadData
    \/ ValidateData
    \/ CleanData
    \/ \E i \in 1..Len(LaterSteps) : PipelineStep(LaterSteps[i])
    \/ RunReturn

SpecPipeline == InitPipeline /\ [][NextPipeline]_vars

\* ------------------------------------------------------------------------
\* Claims about the cache
\* ------------------------------------------------------------------------
Native == <<"dict", "{a:1}">>

\* C1: with the store available, a get(k) that immediately follows a
\* successful set(k, v, ttl) of a JSON value returns v; a get(k) made once
\* the ttl of the last set on k has elapsed, or after delete(k), with no set
\* on k in between, returns None.
C1_RoundTrip ==
    (last.op = "get" /\ last.out = "ok") =>
        LET w == wr[last.key] IN
        /\ (w.kind = "set" /\ w.val \in JsonNative /\ now = w.at) => last.ret = w.val
        /\ (w.kind = "set" /\ w.ttl.given /\ w.ttl.v > 0 /\ now >= w.at + w.ttl.v)
               => last.ret = PyNone
        /\ (w.kind = "set" /\ ~w.ttl.given /\ now >= w.at + CACHE_TTL)
               => last.ret = PyNone
        /\ (w.kind = "del") => last.ret = PyNone

C1_Witness ==
    /\ last.op = "get" /\ last.out = "ok"
    /\ wr[last.key].kind = "set" /\ wr[last.key].at = now
    /\ last.ret = Native

\* Further cases of C1 that are reached: a get after the ttl elapsed, a get
\* after a delete that removed an entry.
C1_ReachExpired ==
    /\ last.op = "get" /\ last.out = "ok" /\ last.ret = PyNone
    /\ wr[last.key].kind = "set" /\ wr[last.key].ttl.given
    /\ now >= wr[last.key].at + wr[last.key].ttl.v

C1_ReachDefaultExpired ==
    /\ last.op = "get" /\ last.out = "ok" /\ last.ret = PyNone
    /\ wr[last.key].kind = "set" /\ ~wr[last.key].ttl.given
    /\ now >= wr[last.key].at + CACHE_TTL

C1_ReachDeleted ==
    /\ last.op = "get" /\ last.out = "ok" /\ wr[last.key].kind = "del"

\* A value json cannot carry unchanged does not come back as it was stored.
C1_LossyComesBack ==
    (last.op = "get" /\ last.out = "ok" /\ wr[last.key].kind = "set"
        /\ now = wr[last.key].at) => last.ret = wr[last.key].val

RanItself(r, kind) ==
    /\ kind \in reqs[r].missed
    /\ reqs[r].res[kind] # PyNone

\* C3: when two requests for the same upload both read a sub-analysis key
\* before either stored it, both compute, the entry left is the value of the
\* later set, the entry is always a value some request computed, and the two
\* computed values are equal.
C3_LastWriteWins ==
    \A kind \in KindSet : \A h \in Files :
        LET key == AnalysisKey(h, kind)
            ran == { r \in Requests : reqs[r].file = h /\ RanItself(r, kind) }
        IN /\ Present(store, key) =>
                 /\ sets[key] \in ran
                 /\ JsonLoads(store[key].text) = reqs[sets[key]].res[kind]
           /\ \A a, b \in ran : reqs[a].res[kind] = reqs[b].res[kind]

\* Two requests with different options both computed and stored the kpis of
\* the same upload.
C3_ReachBothComputed ==
    /\ RanItself(1, "kpis") /\ RanItself(2, "kpis")
    /\ reqs[1].file = reqs[2].file
    /\ sets[AnalysisKey(reqs[1].file, "kpis")] = 2

\* The five parts of a response body and the sub-analysis each comes from.
BodyPart ==
    [kpis |-> "kpis", sales_by_category |-> "by_category", sales_by_city |-> "by_city",
     top_products |-> "top_products", statistics |-> "stats"]

\* C4: what a request with use_cache=true returns equals what the same
\* request (same bytes, same options) returns with use_cache=false.
C4_Transparent ==
    \A r \in Requests :
        (reqs[r].pc = "done" /\ reqs[r].use_cache) =>
            \A part \in DOMAIN BodyPart :
                reqs[r].response[2][part] = Expected(r)[BodyPart[part]]

\* A response served whole from the entry another request stored.
C4_ReachServedFromCache ==
    /\ reqs[2].pc = "done" /\ reqs[2].use_cache /\ reqs[2].missed = {}
    /\ reqs[2].res = NoResults
    /\ reqs[2].response[2].kpis = Expected(1)["kpis"]

\* ------------------------------------------------------------------------
\* Claims about the DataCleaner
\* ------------------------------------------------------------------------
Returned(name) == { k \in 1..Len(log) : log[k].name = name /\ ~log[k].raised }
Occurs(r, rows) == Cardinality({ k \in 1..Len(rows) : rows[k] = r })

\* C5: remove_outliers leaves the same rows whatever the order in which the
\* treated columns are processed.
C5_OrderIndependent ==
    \A i, j \in Returned("remove_outliers") :
        log[i].arg = log[j].arg => log[i].out.rows = log[j].out.rows

\* Row i of t has, in every treated column, a value within the IQR bounds
\* computed over that column of t.
RowInBounds(t, columns, i) ==
    \A k \in 1..Len(columns) : InBounds(t.rows[i][columns[k]], Column(t, columns[k]))

\* C6: IQR outlier removal never adds a row, and every row it removes has a
\* value outside the bounds computed over a treated column of the input.
C6_RemovesOnlyOutOfBounds ==
    \A k \in Returned("remove_outliers") :
        /\ NRows(log[k].out) <= NRows(log[k].arg)
        /\ \A i \in 1..NRows(log[k].arg) :
               RowInBounds(log[k].arg, log[k].param, i)
                   => Occurs(log[k].arg.rows[i], log[k].out.rows)
                          = Occurs(log[k].arg.rows[i], log[k].arg.rows)

\* The enabled steps in the order the contract gives.
ExpectedSteps ==
    SelectSeq(<< "clean_strings", "remove_outliers", "impute_missing", "normalize",
                 "encode_categorical" >>, LAMBDA n : flags[n])

InClean == pc \in StepNames \cup { "return", "done", "raised" }

\* C7: under every flag combination clean runs the enabled steps once each
\* in the order string cleaning, outlier removal, imputation, normalization,
\* encoding, each on the output of the step before; disabled steps are
\* skipped; what clean returns is the output of the last enabled step.
C7_StepOrder ==
    InClean =>
        /\ Len(log) <= Len(ExpectedSteps)
        /\ \A k \in 1..Len(log) :
               /\ log[k].name = ExpectedSteps[k]
               /\ log[k].arg = IF k = 1 THEN orig ELSE log[k - 1].out
        /\ pc = "done" =>
               /\ Len(log) = Len(ExpectedSteps)
               /\ Frame(cur) = IF log = <<>> THEN orig ELSE log[Len(log)].out

C7_Witness ==
    /\ pc = "done"
    /\ Len(log) = 5
    /\ \A k \in { 1, 2, 4, 5 } : log[k].out # log[k].arg

\* C8: clean, and each step called on its own, leaves the caller's frame as
\* it was and returns another frame.
C8_InputUntouched ==
    /\ input = orig
    /\ pc \in { "done", "step_done" } => cur = "own"

C8_Witness ==
    /\ pc = "done"
    /\ Len(log) >= 3
    /\ Frame(cur) # input
    /\ input = orig

C8_WitnessStep ==
    /\ pc = "step_done"
    /\ log[1].name = "clean_strings"
    /\ Frame(cur) # input

\* v is the most frequent observed value of s, the smallest of the most
\* frequent ones.
IsMode(kind, s, v) ==
    /\ Count(kind, s, v) > 0
    /\ \A i \in Present1(kind, s) :
           \/ Count(kind, s, s[i]) < Count(kind, s, v)
           \/ Count(kind, s, s[i]) = Count(kind, s, v) /\ Le(kind, v, s[i])

\* v is what a forward (dir = -1) or backward (dir = 1) fill puts in row i:
\* the nearest observed value on that side, or nothing if there is none.
IsCarried(kind, s, i, dir, v) ==
    LET side == { j \in Present1(kind, s) : (j - i) * dir > 0 } IN
    IF side = {} THEN v = Missing(kind)
    ELSE \E j \in side : v = s[j] /\ \A k \in side : (k - i) * dir >= (j - i) * dir

\* No observed cell changes, so a column without missing values is untouched.
ObservedKept(e) ==
    /\ e.out.cols = e.arg.cols
    /\ NRows(e.out) = NRows(e.arg)
    /\ \A i \in 1..NRows(e.arg) : \A c \in DOMAIN CleanKind :
           ~IsMissing(CleanKind[c], e.arg.rows[i][c]) => e.out.rows[i][c] = e.arg.rows[i][c]

\* The numeric column is filled by the selected strategy (with one numeric
\* column a KNN donor never exists and the column mean is used).
NumericByStrategy(e) ==
    LET s == Column(e.arg, "prix") IN
    \A i \in 1..NRows(e.arg) : IsNaN(s[i]) =>
        LET v == e.out.rows[i].prix IN
        CASE e.param \in { "mean", "knn" } -> v = Mean(s)
          [] e.param = "median"            -> v = Median(s)
          [] e.param = "most_frequent"     -> IsMode("num", s, v)
          [] e.param = "constant"          -> v = Num(0)
          [] e.param = "ffill"             -> IsCarried("num", s, i, -1, v)
          [] e.param = "bfill"             -> IsCarried("num", s, i, 1, v)

CategoricalByMode(e) ==
    LET s == Column(e.arg, "produit") IN
    \A i \in 1..NRows(e.arg) : s[i] = NA => IsMode("obj", s, e.out.rows[i].produit)

CategoricalByFill(e) ==
    LET s == Column(e.arg, "produit") IN
    \A i \in 1..NRows(e.arg) : s[i] = NA =>
        IsCarried("obj", s, i, IF e.param = "ffill" THEN -1 ELSE 1, e.out.rows[i].produit)

\* A column to fill has no observed value and its imputer cannot fill it.
Unfillable(e) ==
    \/ HasMissing("obj", Column(e.arg, "produit")) /\ AllMissing(e.arg, "produit")
    \/ /\ HasMissing("num", Column(e.arg, "prix")) /\ AllMissing(e.arg, "prix")
       /\ e.param \in { "mean", "median", "most_frequent", "knn" }

\* C9 (amended): impute_missing_values changes no observed cell; it fills
\* the numeric column by the selected strategy and the categorical column
\* with its most frequent value under every strategy, forward_fill and
\* backward_fill included; it raises exactly when a column to fill has no
\* observed value for its imputer to use.
C9_Dispatch ==
    \A k \in 1..Len(log) : log[k].name = "impute_missing" =>
        /\ log[k].raised <=> Unfillable(log[k])
        /\ ~log[k].raised =>
               /\ ObservedKept(log[k])
               /\ NumericByStrategy(log[k])
               /\ CategoricalByMode(log[k])

\* A forward fill that returned, where the categorical cell it had to fill
\* did not get the value above it.
C9_Witness ==
    /\ Len(log) = 1 /\ log[1].name = "impute_missing"
    /\ log[1].param = "ffill" /\ ~log[1].raised
    /\ \E i \in 2..NRows(orig) :
           /\ orig.rows[i].produit = NA
           /\ orig.rows[i - 1].produit # NA
           /\ log[1].out.rows[i].produit # orig.rows[i - 1].produit
    /\ \E i \in 1..NRows(orig) : IsNaN(orig.rows[i].prix)

\* C9 as claimed: as above, except that forward_fill and backward_fill are
\* applied to the categorical column too.
C9_FillUniform ==
    \A k \in Returned("impute_missing") :
        /\ ObservedKept(log[k])
        /\ NumericByStrategy(log[k])
        /\ log[k].param \notin { "ffill", "bfill" } => CategoricalByMode(log[k])
        /\ log[k].param \in { "ffill", "bfill" } => CategoricalByFill(log[k])

\* C10 as claimed: a second clean with the default options returns what the
\* first returned.
C10_Idempotent ==
    (Len(log) = 2 /\ log[1].name = "clean")
        => (~log[2].raised /\ log[2].out = log[1].out)

\* The two ways the second pass differs: it removes further rows, or it
\* raises on the empty frame the first pass returned.
C10_ReachFewerRows ==
    /\ Len(log) = 2 /\ log[1].name = "clean"
    /\ ~log[2].raised /\ NRows(log[2].out) < NRows(log[1].out)

C10_ReachRaises ==
    /\ Len(log) = 2 /\ log[1].name = "clean"
    /\ log[2].raised /\ NRows(orig) > 0

\* ------------------------------------------------------------------------
\* Claims about the DataValidator
\* ------------------------------------------------------------------------
\* The messages of a list that come from a check and name a column.
MessagesOf(msgs, check, column) ==
    { k \in 1..Len(msgs) : msgs[k].check = check /\ msgs[k].column = column }

\* The non-missing values of the column outside the inclusive range.
OutOfRange(t, r) ==
    { i \in Observed(t, r.column, AllRows(t)) :
        \/ r.lo.given /\ FLt(t.rows[i][r.column], r.lo.v)
        \/ r.hi.given /\ FLt(r.hi.v, t.rows[i][r.column]) }

\* More than half of the cells of the column are missing.
AboveThreshold(t, c) == 100 * MissingCount(t, c) > 50 * NRows(t)

\* C11: in every result validate returns, is_valid is true exactly when
\* errors is empty; without strict mode is_valid is what the same call gives
\* with the two quality checks (the only source of warnings) turned off.
C11_ValidIffNoErrors ==
    \A k \in Returned("validate") :
        LET e == log[k] IN
        /\ e.out.is_valid <=> (e.out.errors = <<>>)
        /\ ~e.param.strict_mode =>
               e.out.is_valid =
                   Validate(e.arg, [e.param EXCEPT !.check_missing = FALSE,
                                                   !.check_duplicates = FALSE]).result.is_valid

\* A valid result that carries warnings.
C11_Witness ==
    \E k \in Returned("validate") :
        /\ ~log[k].param.strict_mode
        /\ log[k].out.warnings # <<>>
        /\ log[k].out.is_valid

C13_Routed ==
    \A k \in Returned("validate") :
        LET e == log[k]
            a == e.param
            t == e.arg
            into == IF a.strict_mode THEN e.out.errors ELSE e.out.warnings
            other == IF a.strict_mode THEN e.out.warnings ELSE e.out.errors
        IN /\ \A c \in Elems(t.cols) :
                  /\ Cardinality(MessagesOf(into, "missing", c)) =
                         (IF a.check_missing /\ AboveThreshold(t, c) THEN 1 ELSE 0)
                  /\ MessagesOf(other, "missing", c) = {}
           /\ Cardinality(MessagesOf(into, "duplicates", "")) =
                  (IF a.check_duplicates
                      /\ (\E i, j \in 1..NRows(t) : i < j /\ t.rows[i] = t.rows[j])
                   THEN 1 ELSE 0)
           /\ MessagesOf(other, "duplicates", "") = {}

\* A strict call whose errors hold a missing-values message and the
\* duplicate-rows message, on a frame that also has a column at exactly 50%.
C13_Witness ==
    \E k \in Returned("validate") :
        LET e == log[k] IN
        /\ e.param.strict_mode
        /\ MessagesOf(e.out.errors, "missing", "produit") # {}
        /\ MessagesOf(e.out.errors, "duplicates", "") # {}
        /\ e.out.warnings = <<>>

\* A column at exactly 50% of missing cells, checked, without a message.
C13_ReachAtThreshold ==
    \E k \in Returned("validate") :
        LET e == log[k] IN
        /\ e.param.check_missing
        /\ 2 * MissingCount(e.arg, "prix") = NRows(e.arg) /\ NRows(e.arg) > 0
        /\ MessagesOf(e.out.errors \o e.out.warnings, "missing", "prix") = {}

\* C14: for every declared range of a numeric column, the count the range
\* error reports is the number of non-missing values below min or above max,
\* and the error is there exactly when that number is positive.
C14_RangeCount ==
    \A k \in Returned("validate") :
        LET e == log[k] IN
        \A i \in 1..Len(e.param.value_ranges) :
            LET r == e.param.value_ranges[i]
                ms == MessagesOf(e.out.errors, "range", r.column)
            IN HasColumn(e.arg, r.column) =>
                  /\ (ms # {}) <=> (OutOfRange(e.arg, r) # {})
                  /\ \A m \in ms : e.out.errors[m].count = Cardinality(OutOfRange(e.arg, r))

\* The same for the ranges with min <= max.
C14_RangeCountOrdered ==
    \A k \in Returned("validate") :
        LET e == log[k] IN
        \A i \in 1..Len(e.param.value_ranges) :
            LET r == e.param.value_ranges[i]
                ms == MessagesOf(e.out.errors, "range", r.column)
            IN (HasColumn(e.arg, r.column) /\ ~(r.lo.given /\ r.hi.given /\ FLt(r.hi.v, r.lo.v))) =>
                  /\ (ms # {}) <=> (OutOfRange(e.arg, r) # {})
                  /\ \A m \in ms : e.out.errors[m].count = Cardinality(OutOfRange(e.arg, r))

\* A value equal to a bound, counted valid.
C14_ReachAtBound ==
    \E k \in Returned("validate") :
        LET e == log[k] IN
        /\ Len(e.param.value_ranges) = 1
        /\ e.param.value_ranges[1] = Range("prix", Bound(Num(0)), Bound(Num(1)))
        /\ \E i \in 1..NRows(e.arg) : e.arg.rows[i].prix = Num(1)
        /\ MessagesOf(e.out.errors, "range", "prix") = {}

\* ------------------------------------------------------------------------
\* Claims about the DataAggregator
\* ------------------------------------------------------------------------
\* The calls of a method in the log.
CallsOf(methods) == { k \in 1..Len(log) : log[k].name \in methods /\ ~log[k].raised }

\* C15: after any sequence of aggregator calls the caller's frame has the
\* columns and values it had before, and each call returned what it returns
\* on that frame when called first.
C15_Pure ==
    /\ input = orig
    /\ \A k \in CallsOf(AggregatorMethods) :
           log[k].out \in { c.result : c \in AggregatorCallOutcomes(log[k].name, orig) }

\* The second half alone: on a frame without a revenue column of its own,
\* the result of a call does not depend on the calls made before it.
C15_ResultsIndependent ==
    \A k \in CallsOf(AggregatorMethods) :
        log[k].out \in { c.result : c \in AggregatorCallOutcomes(log[k].name, orig) }

\* The sum over the rows of price * quantity, the rows with a missing price
\* or quantity left out.
RevenueOf(t, idx) ==
    LET r == [i \in AllRows(t) |-> Times(t.rows[i].prix, t.rows[i].quantite)]
    IN SumOver(r, { i \in idx : ~IsNaN(r[i]) })

\* C16: calculate_kpis on a frame with rows returns revenue_total equal to
\* the sum of price * quantity, transaction_count equal to the number of
\* rows, and average_basket equal to revenue_total / transaction_count.
C16_KpiFormulas ==
    \A k \in CallsOf({ "calculate_kpis" }) :
        LET t == log[k].arg
            r == log[k].out[2]
        IN NRows(t) > 0 =>
              /\ r.revenue_total = RevenueOf(t, AllRows(t))
              /\ r.transaction_count = NRows(t)
              /\ r.average_basket = Ratio(r.revenue_total, Num(r.transaction_count))

\* The same on the frames without a missing price.
C16_KpiFormulasComplete ==
    \A k \in CallsOf({ "calculate_kpis" }) :
        LET t == log[k].arg
            r == log[k].out[2]
        IN (NRows(t) > 0 /\ \A i \in AllRows(t) : ~IsNaN(t.rows[i].prix)) =>
              /\ r.revenue_total = RevenueOf(t, AllRows(t))
              /\ r.transaction_count = NRows(t)
              /\ r.average_basket = Ratio(r.revenue_total, Num(r.transaction_count))

\* price = [10, 20], quantity = [2, 1] gives 40, 2 and 20.
C16_ReachExample ==
    \E k \in CallsOf({ "calculate_kpis" }) :
        LET t == log[k].arg
            r == log[k].out[2]
        IN /\ NRows(t) = 2
           /\ t.rows[1].prix = Num(10) /\ t.rows[1].quantite = Num(2)
           /\ t.rows[2].prix = Num(20) /\ t.rows[2].quantite = Num(1)
           /\ r.revenue_total = Num(40) /\ r.transaction_count = 2
           /\ r.average_basket = Num(20)

\* The distance of two numbers.
Distance(x, y) == IF FLe(x, y) THEN FSub(y, x) ELSE FSub(x, y)

\* C17: in the results of calculate_sales_by_category, by_city and
\* by_source, each row's ca_percentage is 100 * ca_total / (revenue of all
\* the rows of the input frame) rounded to 2 decimals, and the percentages of
\* a result with rows sum to 100 within half a hundredth per row.
C17_ShareOfTotal ==
    \A k \in CallsOf({ "calculate_sales_by_category", "calculate_sales_by_city",
                       "calculate_sales_by_source" }) :
        LET t == log[k].arg
            rows == log[k].out[2]
            total == RevenueOf(t, AllRows(t))
            pct == [i \in 1..Len(rows) |-> rows[i].ca_percentage]
        IN /\ \A i \in 1..Len(rows) :
                  pct[i] = Round2(Times(Ratio(rows[i].ca_total, total), Num(100)))
           /\ Len(rows) > 0 =>
                  /\ \A i \in 1..Len(rows) : ~IsNaN(pct[i])
                  /\ FLe(Distance(SumOver(pct, 1..Len(rows)), Num(100)), Frac(Len(rows), 200))

\* The same on the frames where no price and no group key is missing.
C17_ShareOfTotalComplete ==
    \A k \in CallsOf({ "calculate_sales_by_category", "calculate_sales_by_city",
                       "calculate_sales_by_source" }) :
        LET t == log[k].arg
            rows == log[k].out[2]
            total == RevenueOf(t, AllRows(t))
            pct == [i \in 1..Len(rows) |-> rows[i].ca_percentage]
        IN (\A i \in AllRows(t) : ~IsNaN(t.rows[i].prix) /\ t.rows[i].categorie # NA) =>
           /\ \A i \in 1..Len(rows) :
                  pct[i] = Round2(Times(Ratio(rows[i].ca_total, total), Num(100)))
           /\ Len(rows) > 0 =>
                  /\ \A i \in 1..Len(rows) : ~IsNaN(pct[i])
                  /\ FLe(Distance(SumOver(pct, 1..Len(rows)), Num(100)), Frac(Len(rows), 200))

\* C18: calculate_top_products(t, top_n, metric) returns top_n rows (all the
\* products when there are fewer), in descending order of the metric's
\* total, products with equal totals in the order the aggregation lists them
\* (by product), and no product left out has a larger total than, or an
\* equal total and an earlier place than, a product returned.
C18_TopN ==
    \A k \in CallsOf({ "calculate_top_products" }) :
        LET e == log[k]
            s == e.out[2]
            col == SortColumn(e.param.metric)
            all == Elems(CalculateTopProducts(e.arg).result[2])
            out == all \ Elems(s)
        IN /\ Len(s) = (IF e.param.top_n < Cardinality(all) THEN e.param.top_n
                        ELSE Cardinality(all))
           /\ Elems(s) \subseteq all
           /\ \A i, j \in 1..Len(s) : i < j =>
                  /\ FLe(s[j][col], s[i][col])
                  /\ s[i][col] = s[j][col] =>
                         (StrLe(s[i].produit, s[j].produit) /\ s[i].produit # s[j].produit)
           /\ \A g \in out : \A i \in 1..Len(s) :
                  /\ FLe(g[col], s[i][col])
                  /\ g[col] = s[i][col] => StrLe(s[i].produit, g.produit)

\* The same without the order of equal totals.
C18_TopNAnyTieOrder ==
    \A k \in CallsOf({ "calculate_top_products" }) :
        LET e == log[k]
            s == e.out[2]
            col == SortColumn(e.param.metric)
            all == Elems(CalculateTopProducts(e.arg).result[2])
            out == all \ Elems(s)
        IN /\ Len(s) = (IF e.param.top_n < Cardinality(all) THEN e.param.top_n
                        ELSE Cardinality(all))
           /\ Elems(s) \subseteq all
           /\ \A i, j \in 1..Len(s) : i < j => FLe(s[j][col], s[i][col])
           /\ \A g \in out : \A i \in 1..Len(s) : FLe(g[col], s[i][col])

\* Two of three products returned, the two with equal totals.
C18_ReachTie ==
    \E k \in CallsOf({ "calculate_top_products" }) :
        LET s == log[k].out[2] IN
        /\ log[k].param.top_n = 2 /\ log[k].param.metric = "revenue"
        /\ Len(s) = 2 /\ s[1].ca_total = s[2].ca_total
        /\ Cardinality(GroupKeys(log[k].arg, "produit")) = 3

\* C19: in the result of calculate_trend_analysis the first period's
\* ca_variation_pct is null, and that of every later period whose preceding
\* period has a revenue other than zero is
\* 100 * (revenue - preceding revenue) / preceding revenue; after a period
\* of zero revenue it is not a finite number.
C19_TrendPct ==
    \A k \in CallsOf({ "calculate_trend_analysis" }) :
        LET rows == log[k].out[2] IN
        \A i \in 1..Len(rows) :
            IF i = 1 THEN rows[i].ca_variation_pct = NaN
            ELSE LET this == rows[i].ca_total
                     prev == rows[i - 1].ca_total
                 IN IF prev[1] # 0
                    THEN rows[i].ca_variation_pct =
                             Frac(100 * FSub(this, prev)[1] * prev[2], FSub(this, prev)[2] * prev[1])
                    ELSE rows[i].ca_variation_pct[2] = 0

\* Monthly revenues [100, 150, 90] give [null, 50, -40].
C19_Witness ==
    \E k \in CallsOf({ "calculate_trend_analysis" }) :
        LET rows == log[k].out[2] IN
        /\ Len(rows) = 3
        /\ rows[1].ca_total = Num(100) /\ rows[2].ca_total = Num(150)
        /\ rows[3].ca_total = Num(90)
        /\ rows[1].ca_variation_pct = NaN
        /\ rows[2].ca_variation_pct = Num(50)
        /\ rows[3].ca_variation_pct = Num(-40)

\* A month without a sale between two months with sales: its revenue is 0
\* and the variation of the month after it is infinite.
C19_ReachEmptyMonth ==
    \E k \in CallsOf({ "calculate_trend_analysis" }) :
        LET rows == log[k].out[2] IN
        /\ Len(rows) = 3
        /\ rows[2].nb_transactions = 0 /\ rows[2].ca_total = Num(0)
        /\ rows[3].ca_variation_pct = Inf

\* ------------------------------------------------------------------------
\* Claims about the statistics
\* ------------------------------------------------------------------------
\* C20: the result of find_strong_correlations holds no pair of a column
\* with itself, no pair twice in either direction, exactly the pairs of
\* distinct numeric columns whose absolute correlation is at least the
\* threshold, each with its coefficient, in non-increasing order of absolute
\* correlation.
C20_UpperTriangle ==
    \A k \in CallsOf({ "find_strong_correlations" }) :
        LET e == log[k]
            res == e.out
            numeric == Elems(NumericColumns(e.arg))
        IN /\ \A i \in 1..Len(res) : res[i][1] # res[i][2]
           /\ \A i, j \in 1..Len(res) :
                  i # j => { res[i][1], res[i][2] } # { res[j][1], res[j][2] }
           /\ { { res[i][1], res[i][2] } : i \in 1..Len(res) } =
                  { { q[1], q[2] } : q \in { q \in numeric \X numeric :
                      q[1] # q[2] /\ AbsAtLeast(Corr(e.arg, q[1], q[2]), e.param) } }
           /\ \A i \in 1..Len(res) : res[i][3] = Corr(e.arg, res[i][1], res[i][2])
           /\ \A i, j \in 1..Len(res) : i < j => FLe(res[j][3].sq, res[i][3].sq)

\* A result with two pairs of different absolute correlation, while a third
\* pair is below the threshold or without coefficient.
C20_Witness ==
    \E k \in CallsOf({ "find_strong_correlations" }) :
        LET res == log[k].out IN
        /\ Len(res) = 2
        /\ FLt(res[2][3].sq, res[1][3].sq)
        /\ Len(NumericColumns(log[k].arg)) = 3

\* C21: a statistics operation that cannot produce a meaningful result ends
\* in an error: a call of calculate_correlation_matrix whose frame gives an
\* undefined coefficient (a column without variance, fewer than two rows
\* observed) raises instead of returning NaN as a normal result.
C21_NoSilentNaN ==
    \A k \in CallsOf({ "calculate_correlation_matrix" }) :
        (\E p \in DOMAIN log[k].out : log[k].out[p].nan) => log[k].raised

\* A matrix returned normally on a frame with a constant column: that
\* column's coefficients are all NaN, the others are defined.
C21_ReachConstantColumn ==
    \E k \in CallsOf({ "calculate_correlation_matrix" }) :
        /\ ~log[k].raised
        /\ NRows(log[k].arg) = 3
        /\ log[k].out[<<"prix", "prix">>].nan
        /\ log[k].out[<<"prix", "quantite">>].nan
        /\ ~log[k].out[<<"quantite", "stock">>].nan

\* Every coefficient the matrix gives as defined is a correlation: its
\* square is at most 1 and the diagonal is 1.
C21_DefinedCoefficients ==
    \A k \in CallsOf({ "calculate_correlation_matrix" }) :
        \A p \in DOMAIN log[k].out :
            LET r == log[k].out[p] IN
            ~r.nan => /\ FLe(r.sq, Num(1))
                      /\ (p[1] = p[2] => r.sq = Num(1) /\ r.sign = 1)

\* ------------------------------------------------------------------------
\* Claims about outlier reporting and removal
\* ------------------------------------------------------------------------
\* The rows of the frame handed to a removal that its result no longer has.
Dropped(e) == (1..NRows(e.arg)) \ e.out.index

\* C22: for each column and method, the rows outlier_detection flags are
\* exactly the rows the cleaner's removal of that column drops from the
\* same table.
C22_SameRows ==
    \A i, j \in 1..Len(log) :
        (/\ log[i].name = "outlier_detection"
         /\ log[j].name = "_remove_outliers"
         /\ log[i].param = log[j].param)
        => log[i].out.mask = Dropped(log[j])

\* Both called on a frame without missing value: a row is flagged and the
\* same row is dropped, under the z-score method.
C22_ReachAgree ==
    \E i, j \in 1..Len(log) :
        /\ log[i].name = "outlier_detection"
        /\ log[j].name = "_remove_outliers"
        /\ log[i].param = <<"prix", "zscore">>
        /\ log[j].param = <<"prix", "zscore">>
        /\ log[i].out.count = 1
        /\ log[i].out.mask = Dropped(log[j])

\* What the two have in common: every flagged row is dropped, and a dropped
\* row that is not flagged holds a missing value, or its z-score is
\* undefined or exactly at the threshold.
C22_FlaggedAreDropped ==
    \A i, j \in 1..Len(log) :
        (/\ log[i].name = "outlier_detection"
         /\ log[j].name = "_remove_outliers"
         /\ log[i].param = log[j].param)
        => /\ log[i].out.mask \subseteq Dropped(log[j])
           /\ \A r \in Dropped(log[j]) \ log[i].out.mask :
                  \/ IsNaN(log[j].arg.rows[r].prix)
                  \/ /\ log[j].param[2] = "zscore"
                     /\ ZScoreSide(log[j].arg.rows[r].prix, Column(log[j].arg, "prix"))
                            \in { "nan", "at" }

\* A row dropped by the IQR removal that the IQR detection does not flag.
C22_ReachMissingDropped ==
    \E i, j \in 1..Len(log) :
        /\ log[i].name = "outlier_detection"
        /\ log[j].name = "_remove_outliers"
        /\ log[i].param = <<"prix", "iqr">>
        /\ log[j].param = <<"prix", "iqr">>
        /\ log[i].out.count = 0
        /\ Cardinality(Dropped(log[j])) = 1
        /\ NRows(log[j].arg) = 3

\* ------------------------------------------------------------------------
\* Claims about the cache: time-to-live, invalidation, keys, the singleton
\* ------------------------------------------------------------------------
\* The time-to-live the caller of a set asked for.
AskedTtl(ttl) == IF ttl.given THEN ttl.v ELSE CACHE_TTL

\* C23: a set that succeeds stores the entry with the default time-to-live
\* of 3600 seconds when no ttl is given, and with exactly the ttl given by
\* the caller otherwise, whatever its value.
C23_TtlAsGiven ==
    (last.op = "set" /\ last.flag) =>
        store[last.key].exp = wr[last.key].at + AskedTtl(wr[last.key].ttl)

\* The same for the calls without ttl and with a ttl that is not zero.
C23_TtlAsGivenNonZero ==
    (last.op = "set" /\ last.flag /\ AskedTtl(wr[last.key].ttl) # 0) =>
        store[last.key].exp = wr[last.key].at + AskedTtl(wr[last.key].ttl)

\* A set with ttl=0 that succeeded: the entry lives for the default time.
C23_ReachZeroTtl ==
    /\ last.op = "set" /\ last.flag
    /\ wr[last.key].ttl = [given |-> TRUE, v |-> 0]
    /\ store[last.key].exp = now + CACHE_TTL

\* A set with ttl=1 that succeeded: the entry lives for one second.
C23_ReachGivenTtl ==
    /\ last.op = "set" /\ last.flag
    /\ wr[last.key].ttl = [given |-> TRUE, v |-> 1]
    /\ store[last.key].exp = now + 1

\* ------------------------------------------------------------------------
\* Claims about the sub-analyses of the analyze endpoint
\* ------------------------------------------------------------------------
SameRequest(a, b) ==
    /\ reqs[a].file = reqs[b].file
    /\ reqs[a].clean = reqs[b].clean
    /\ reqs[a].remove_outliers = reqs[b].remove_outliers

\* C24: the value a request computes and stores for a sub-analysis does not
\* depend on which of the other sub-analyses it was served from the cache:
\* two requests for the same upload with the same options that both compute
\* a sub-analysis compute the same value, whatever each of them found in the
\* cache for the others.
C24_NoInterference ==
    \A a, b \in Requests : \A kind \in KindSet :
        (SameRequest(a, b) /\ RanItself(a, kind) /\ RanItself(b, kind))
            => reqs[a].res[kind] = reqs[b].res[kind]

\* The second request, made after the first has completed and the entries
\* stats and full were deleted: it is served the four aggregations from the
\* cache and computes stats alone, with another result than the first.
C24_ReachStatsAlone ==
    /\ SameRequest(1, 2)
    /\ reqs[1].pc = "done" /\ reqs[1].missed = KindSet
    /\ reqs[2].pc = "done" /\ reqs[2].missed = { "stats" }
    /\ reqs[1].res["stats"] # reqs[2].res["stats"]
    /\ sets[AnalysisKey(reqs[1].file, "kpis")] = 1

\* The four aggregations do not depend on what was served from the cache.
C24_AggregationsIndependent ==
    \A a, b \in Requests : \A kind \in KindSet \ { "stats" } :
        (SameRequest(a, b) /\ RanItself(a, kind) /\ RanItself(b, kind))
            => reqs[a].res[kind] = reqs[b].res[kind]

\* The six keys of an upload.
SixKeys(h) == { AnalysisKey(h, kind) : kind \in KindSet \cup { "full" } }
Changed == { k \in DOMAIN store : store'[k] # store[k] }

C25_ReachServedWithoutSubs ==
    /\ reqs[2].pc = "done" /\ reqs[2].use_cache /\ reqs[2].res = NoResults
    /\ reqs[2].response # PyNone
    /\ ~Present(store, AnalysisKey(reqs[2].file, "kpis"))
    /\ Present(store, AnalysisKey(reqs[2].file, "full"))

\* The keys analysis:{h}:{kind} of a fingerprint h.
KeysOf(h) == { k \in Keys : k[1] = "analysis" /\ k[2] = h }

\* C26: invalidate_file_cache(h), when the store answers, removes every
\* entry whose key is analysis:{h}:{kind} and leaves every other entry as
\* it was; from then on a get of a key of h returns None until the next set
\* of that key.
C26_Invalidate ==
    [][/\ (last'.op = "delete_pattern" /\ last'.setout = "ok") =>
              /\ \A k \in KeysOf(last'.key[2]) : ~Present(store', k)
              /\ \A k \in Keys \ KeysOf(last'.key[2]) : store'[k] = store[k]
              /\ last'.n = Cardinality({ k \in KeysOf(last'.key[2]) : Present(store, k) })
       /\ (last'.op = "get" /\ last'.out = "ok" /\ wr[last'.key].kind = "other") =>
              last'.ret = PyNone]_vars

\* invalidate_file_cache("h1") has removed two entries while the entry of
\* the other upload and the entry of the wrapped function are still there.
C26_Witness ==
    /\ last.op = "delete_pattern" /\ last.setout = "ok"
    /\ last.key[2] = "h1" /\ last.n = 2
    /\ \A k \in KeysOf("h1") : ~Present(store, k)
    /\ \A k \in Keys \ KeysOf("h1") : Present(store, k)

\* A get of an invalidated key, with the store answering.
C26_ReachGetAfter ==
    /\ last.op = "get" /\ last.out = "ok" /\ last.ret = PyNone
    /\ wr[last.key].kind = "other"
    /\ \E k \in Keys \ { last.key } : Present(store, k)

\* Equal positional arguments and equal keyword arguments, in any order of
\* the keywords.
SameArguments(a, b) == a.args = b.args /\ Elems(a.kwargs) = Elems(b.kwargs)
WrappedCalls == { k \in 1..Len(log) : log[k].name = "cached" }

\* C27: a function wrapped by cached returns a stored value only if an
\* earlier call with equal arguments stored it, two calls with different
\* argument lists never have the same cache key, and calls with the same
\* keyword arguments in a different order have the same key.
C27_KeyPerArguments ==
    /\ \A i, j \in WrappedCalls :
           SameArguments(log[i].param, log[j].param) <=> log[i].arg = log[j].arg
    /\ \A j \in WrappedCalls :
           (~log[j].out.computed /\ ~log[j].raised) =>
               \E i \in WrappedCalls :
                   /\ i < j
                   /\ log[i].out.stored
                   /\ SameArguments(log[i].param, log[j].param)

\* f(1) has stored its result, then f('1') is returned the result of f(1).
C27_ReachOtherResult ==
    /\ Len(log) = 2
    /\ log[1].name = "cached" /\ log[1].param.returns = "f(1)" /\ log[1].out.stored
    /\ log[2].name = "cached" /\ log[2].param.returns = "f('1')" /\ ~log[2].out.computed
    /\ log[2].out.ret = <<"dict", "f(1)">>

\* One half of C27 holds: calls with equal arguments have the same key, so
\* keyword arguments in another order find the stored value; and a call that
\* is returned a stored value has the key of an earlier call that stored.
C27_EqualArgumentsSameKey ==
    /\ \A i, j \in WrappedCalls :
           SameArguments(log[i].param, log[j].param) => log[i].arg = log[j].arg
    /\ \A j \in WrappedCalls :
           (~log[j].out.computed /\ ~log[j].raised) =>
               \E i \in WrappedCalls :
                   i < j /\ log[i].out.stored /\ log[i].arg = log[j].arg

\* f(x=1, y=2) has stored its result, then f(y=2, x=1) is returned it.
C27_ReachKeywordOrder ==
    /\ Len(log) = 2
    /\ log[1].name = "cached" /\ log[1].out.stored
    /\ log[2].name = "cached" /\ ~log[2].out.computed
    /\ log[1].param.kwargs # log[2].param.kwargs
    /\ Len(log[1].param.kwargs) = 2
    /\ SameArguments(log[1].param, log[2].param)
    /\ log[2].out.ret = <<"dict", "f(x=1,y=2)">>

Constructions == { k \in 1..Len(log) : log[k].name = "RedisCache" }

\* C28: every construction of RedisCache returns the same instance, the
\* connection is attempted on the first construction only, and when that
\* attempt failed or the cache is disabled, every later operation finds the
\* cache unavailable, also while the server answers again: nothing is read
\* from or written to the store.
C28_Singleton ==
    /\ \A i, j \in Constructions : log[i].out.instance = log[j].out.instance
    /\ \A i \in Constructions : log[i].out.attempted <=> (i = 1 /\ enabled)
    /\ (Constructions # {} /\ log[1].out.client = "none") =>
           /\ client = "none"
           /\ ~IsAvailable
           /\ store = EmptyStore
           /\ last.op \in { "get", "cached" } => last.out = "unavail"
           /\ last.op = "set" => (last.setout = "unavail" /\ ~last.flag)

\* The first construction found the server down; the server answers again,
\* the class was constructed a second time, and a set still returns False.
C28_Witness ==
    /\ Len(log) = 2
    /\ enabled /\ redis_up
    /\ ~log[1].arg /\ log[2].arg
    /\ log[1].out.attempted /\ log[1].out.client = "none"
    /\ last.op = "set" /\ last.setout = "unavail"

\* The first construction connected: the cache is used.
C28_ReachUsed ==
    /\ Len(log) = 3
    /\ client = "conn"
    /\ last.op = "set" /\ last.flag

\* ------------------------------------------------------------------------
\* Claims about outlier removal and incomplete rows
\* ------------------------------------------------------------------------
\* No cell of the numeric columns cols of t is missing.
Complete(t, cols) ==
    \A i \in 1..NRows(t) : \A k \in 1..Len(cols) : ~IsNaN(t.rows[i][cols[k]])

\* C29: after remove_outliers, under iqr and under zscore, every remaining
\* row has a value in every treated numeric column; and in clean with
\* outlier removal and imputation both enabled, the imputation that follows
\* leaves every numeric column as the outlier removal returned it.
C29_NoIncompleteRows ==
    \A k \in 1..Len(log) :
        /\ (log[k].name = "remove_outliers" /\ ~log[k].raised)
               => Complete(log[k].out, NumericColumns(log[k].arg))
        /\ (log[k].name = "impute_missing" /\ k > 1 /\ log[k - 1].name = "remove_outliers")
               => \A j \in 1..Len(NumericColumns(log[k].arg)) :
                      Column(log[k].out, NumericColumns(log[k].arg)[j])
                          = Column(log[k].arg, NumericColumns(log[k].arg)[j])

\* clean has returned: the outlier removal dropped a row with a missing
\* price and kept others, the imputation filled a product name and no
\* number.
C29_Witness ==
    /\ pc = "done"
    /\ \E k \in 2..Len(log) :
         /\ log[k - 1].name = "remove_outliers"
         /\ log[k].name = "impute_missing"
         /\ \E i \in 1..NRows(log[k - 1].arg) : IsNaN(log[k - 1].arg.rows[i].prix)
         /\ NRows(log[k - 1].out) = 2
         /\ NRows(log[k - 1].arg) = 3
         /\ log[k].out # log[k].arg

\* remove_outliers under zscore dropped the one row without quantity and
\* kept the two others.
C29_ReachZscore ==
    /\ pc = "step_done"
    /\ log[1].name = "remove_outliers" /\ log[1].param = "zscore"
    /\ NRows(log[1].arg) = 3 /\ NRows(log[1].out) = 2
    /\ \E i \in 1..3 : IsNaN(log[1].arg.rows[i].quantite)

\* ------------------------------------------------------------------------
\* Claims about DataAnalysisPipeline.run
\* ------------------------------------------------------------------------
\* The steps run calls after the loading, and what run returned.
GatedSteps == { "validate_data", "clean_data" } \cup Elems(LaterSteps)
LoadFailed == \E k \in 1..Len(log) : log[k].name = "load_data" /\ ~log[k].out
FailedValidations ==
    { k \in 1..Len(log) :
        log[k].name = "validate_data" /\ ~log[k].raised /\ ~log[k].out.is_valid }
RunReturned == pc = "returned"
RunResult == log[Len(log)].out
StepAfterValidation == IF flags.skip_cleaning THEN "calculate_kpis" ELSE "clean_data"

\* C30: when the loading fails, run returns False and none of the steps
\* after it is called.  A validation that reports the table invalid leaves
\* the table as it was and is followed by the next step of run (the cleaning,
\* or the first analysis step when the cleaning is skipped), and run then
\* returns True exactly when none of the steps after it raised.  Whenever
\* run returns True, no step it called raised.
C30_StepGating ==
    /\ LoadFailed =>
         /\ \A j \in 1..Len(log) : log[j].name \notin GatedSteps
         /\ RunReturned => ~RunResult
    /\ \A k \in FailedValidations :
         /\ log[k].out.df = log[k].arg
         /\ log[k].arg = orig.table
         /\ IF Len(log) = k
            THEN pc = "clean_data" \/ (flags.skip_cleaning /\ pc = StepAfterValidation)
            ELSE log[k + 1].name = StepAfterValidation
         /\ RunReturned =>
              (RunResult <=> \A j \in (k + 1)..(Len(log) - 1) : ~log[j].raised)
    /\ (RunReturned /\ RunResult) =>
         /\ \A j \in 1..Len(log) : ~log[j].raised
         /\ \E j \in 1..Len(log) : log[j].name = "load_data" /\ log[j].out

\* run returned True on a sales file with a negative price: the validation
\* reported it invalid, the cleaning and every later step ran.
C30_Witness ==
    /\ RunReturned
    /\ RunResult
    /\ FailedValidations # {}
    /\ orig.table.kind.prix = "num"
    /\ \E i \in 1..NRows(orig.table) : FLt(orig.table.rows[i].prix, Num(0))
    /\ \E j \in 1..Len(log) : log[j].name = "clean_data"
    /\ \A i \in 1..Len(LaterSteps) : \E j \in 1..Len(log) : log[j].name = LaterSteps[i]

\* run returned False on an unreadable file after mkdir and load_data alone.
C30_ReachLoadFailed ==
    /\ RunReturned
    /\ LoadFailed
    /\ Len(log) = 3

\* The validation of a file whose prices are text raised, and run returned
\* False without cleaning.
C30_ReachValidationRaised ==
    /\ RunReturned
    /\ ~RunResult
    /\ \E k \in 1..Len(log) : log[k].name = "validate_data" /\ log[k].raised
    /\ \A j \in 1..Len(log) : log[j].name # "clean_data"

====
